---------------------------- MODULE Spec2Model ----------------------------
(***************************************************************************)
(* A model of hera_cal: utils.chisq, utils.synthesize_ant_flags,           *)
(* io.HERAData._get_slice and abscal.AbsCal.                               *)
(*                                                                         *)
(* Waterfalls are functions over Pix, the (time, frequency) pixels         *)
(* flattened.  Complex numbers are pairs <<re, im>> of integers.           *)
(* A Python dictionary is a function whose DOMAIN is its key set.          *)
(* A polarization string is the sequence of its characters, "xy" being     *)
(* <<"x", "y">>, so that pol[0], pol[1] and pol[::-1] are what they are in *)
(* the code.  An optional argument is [some |-> FALSE] for None and        *)
(* [some |-> TRUE, v |-> value] otherwise.                                 *)
(***************************************************************************)
EXTENDS Integers, Sequences, FiniteSets, TLC

(***************************************************************************)
(* Bounds of the model.                                                    *)
(***************************************************************************)
\* number of (time, frequency) pixels of every waterfall
NPix == 2
\* number of visibility samples a baseline's waterfalls are drawn from
NSamples == 2

Pix == 1..NPix

None == [some |-> FALSE]
Some(x) == [some |-> TRUE, v |-> x]

(***************************************************************************)
(* Dictionaries and arrays.                                                *)
(***************************************************************************)
EmptyDict == <<>>
Put(d, k, x) == [y \in (DOMAIN d) \cup {k} |-> IF y = k THEN x ELSE d[y]]
Restrict(d, S) == [y \in (DOMAIN d) \cap S |-> d[y]]

Zeros == [p \in Pix |-> 0]
WAdd(a, b) == [p \in Pix |-> a[p] + b[p]]

\* every ordering of a finite set: the orders in which a dict can be iterated
RECURSIVE Orders(_)
Orders(S) ==
    IF S = {} THEN {<<>>}
    ELSE UNION {{<<x>> \o o : o \in Orders(S \ {x})} : x \in S}

(***************************************************************************)
(* Complex arithmetic on pairs of integers.                                *)
(***************************************************************************)
CMul(a, b) == <<a[1] * b[1] - a[2] * b[2], a[1] * b[2] + a[2] * b[1]>>
CSub(a, b) == <<a[1] - b[1], a[2] - b[2]>>
CConj(a) == <<a[1], 0 - a[2]>>
AbsInt(n) == IF n < 0 THEN 0 - n ELSE n
NormSq(a) == a[1] * a[1] + a[2] * a[2]
\* np.abs: every residual of the model has an integer magnitude (3-4-5)
CAbs(a) == CHOOSE r \in 0..(AbsInt(a[1]) + AbsInt(a[2])) : r * r = NormSq(a)

(***************************************************************************)
(* Polarizations (pyuvdata's numbering).                                   *)
(***************************************************************************)
polstr2num(pol) ==
    CASE pol = <<"x", "x">> -> 0 - 5
      [] pol = <<"y", "y">> -> 0 - 6
      [] pol = <<"x", "y">> -> 0 - 7
      [] pol = <<"y", "x">> -> 0 - 8
      [] pol = <<"p", "I">> -> 1
      [] pol = <<"p", "Q">> -> 2

jstr2num(c) == IF c = "x" THEN 0 - 5 ELSE 0 - 6
jnum2str(n) == IF n = 0 - 5 THEN "x" ELSE "y"

\* utils.split_pol: the two antenna polarizations of a visibility polarization
split_pol(pol) == <<jnum2str(jstr2num(pol[1])), jnum2str(jstr2num(pol[2]))>>

Reverse(s) == [i \in 1..Len(s) |-> s[Len(s) + 1 - i]]

conj_pol_keep(pol) == pol
\* utils.conj_pol
conj_pol(pol) == IF polstr2num(pol) > 0 THEN pol ELSE Reverse(pol)


(***************************************************************************)
(* utils.chisq.  a is the record of the arguments data, model, data_wgts,  *)
(* gains, gain_flags and split_by_antpol; acc holds the four accumulators  *)
(* and the exception raised so far ("ok" when none).                       *)
(***************************************************************************)
B2I(b) == IF b THEN 1 ELSE 0

\* model[bl] * gains[ant1] * np.conj(gains[ant2]), or the model itself
ModelHere(a, bl, ant1, ant2) ==
    IF a.gains.some
    THEN [p \in Pix |-> CMul(CMul(a.model[bl][p], a.gains.v[ant1][p]),
                             CConj(a.gains.v[ant2][p]))]
    ELSE a.model[bl]

EffWgts_OneAnt(a, bl, ant1, ant2) ==
    IF a.gain_flags.some
    THEN [p \in Pix |-> a.data_wgts[bl][p] * B2I(~a.gain_flags.v[ant1][p])]
    ELSE a.data_wgts[bl]
\* data_wgts[bl] * ~gain_flags[ant1] * ~gain_flags[ant2], or the weights themselves
EffWgts(a, bl, ant1, ant2) ==
    IF a.gain_flags.some
    THEN [p \in Pix |-> a.data_wgts[bl][p] * B2I(~a.gain_flags.v[ant1][p])
                                           * B2I(~a.gain_flags.v[ant2][p])]
    ELSE a.data_wgts[bl]

\* np.abs(model_here - data[bl]) * wgts
ChisqHere(a, bl, model_here, wgts) ==
    [p \in Pix |-> CAbs(CSub(model_here[p], a.data[bl][p])) * wgts[p]]

ObsHere_Geq(wgts) == [p \in Pix |-> B2I(wgts[p] >= 0)]
\* wgts > 0, as the integers numpy adds
ObsHere(wgts) == [p \in Pix |-> B2I(wgts[p] > 0)]

Raise(acc, exc) == [acc EXCEPT !.status = exc]

\* the update of chisq and nObs by one baseline
MainUpdate(acc, split, ap1, ch, ob) ==
    IF split
    THEN IF ~acc.chisq.some \/ ~acc.nObs.some THEN Raise(acc, "AttributeError")
         ELSE IF ap1 \in DOMAIN acc.chisq.v
         THEN IF ap1 \notin DOMAIN acc.nObs.v THEN Raise(acc, "AssertionError")
              ELSE [acc EXCEPT !.chisq = Some(Put(acc.chisq.v, ap1, WAdd(acc.chisq.v[ap1], ch))),
                               !.nObs = Some(Put(acc.nObs.v, ap1, WAdd(acc.nObs.v[ap1], ob)))]
         ELSE IF ap1 \in DOMAIN acc.nObs.v THEN Raise(acc, "AssertionError")
              ELSE [acc EXCEPT !.chisq = Some(Put(acc.chisq.v, ap1, ch)),
                               !.nObs = Some(Put(acc.nObs.v, ap1, ob))]
    ELSE IF ~acc.chisq.some THEN Raise(acc, "TypeError")
         ELSE IF ~acc.nObs.some
         THEN Raise([acc EXCEPT !.chisq = Some(WAdd(acc.chisq.v, ch))], "TypeError")
         ELSE [acc EXCEPT !.chisq = Some(WAdd(acc.chisq.v, ch)),
                          !.nObs = Some(WAdd(acc.nObs.v, ob))]

AntUpdate_Overwrite(acc, ant, ch, ob) ==
    IF acc.status # "ok" THEN acc
    ELSE IF ~acc.chisq_per_ant.some \/ ~acc.nObs_per_ant.some THEN Raise(acc, "AttributeError")
    ELSE [acc EXCEPT !.chisq_per_ant = Some(Put(acc.chisq_per_ant.v, ant, ch)),
                     !.nObs_per_ant = Some(Put(acc.nObs_per_ant.v, ant, ob))]
\* the update of chisq_per_ant and nObs_per_ant for one antenna of a baseline
AntUpdate(acc, ant, ch, ob) ==
    IF acc.status # "ok" THEN acc
    ELSE IF ~acc.chisq_per_ant.some \/ ~acc.nObs_per_ant.some THEN Raise(acc, "AttributeError")
    ELSE IF ant \in DOMAIN acc.chisq_per_ant.v
    THEN IF ant \notin DOMAIN acc.nObs_per_ant.v THEN Raise(acc, "AssertionError")
         ELSE [acc EXCEPT
                 !.chisq_per_ant = Some(Put(acc.chisq_per_ant.v, ant,
                                            WAdd(acc.chisq_per_ant.v[ant], ch))),
                 !.nObs_per_ant = Some(Put(acc.nObs_per_ant.v, ant,
                                           WAdd(acc.nObs_per_ant.v[ant], ob)))]
    ELSE IF ant \in DOMAIN acc.nObs_per_ant.v THEN Raise(acc, "AssertionError")
         ELSE [acc EXCEPT !.chisq_per_ant = Some(Put(acc.chisq_per_ant.v, ant, ch)),
                          !.nObs_per_ant = Some(Put(acc.nObs_per_ant.v, ant, ob))]

IsCompared_AnyPol(a, bl) == bl \in DOMAIN a.model /\ bl \in DOMAIN a.data_wgts
\* the guard of the loop body: the baseline is in model and data_wgts and,
\* when split_by_antpol, is not cross-polarized
IsCompared(a, bl) ==
    /\ bl \in DOMAIN a.model
    /\ bl \in DOMAIN a.data_wgts
    /\ (~a.split_by_antpol \/ split_pol(bl[3])[1] = split_pol(bl[3])[2])

\* one iteration of "for bl in data.keys()"
ChisqStep(a, acc, bl) ==
    LET ap1 == split_pol(bl[3])[1]
        ap2 == split_pol(bl[3])[2]
        ant1 == <<bl[1], ap1>>
        ant2 == <<bl[2], ap2>>
    IN  IF ~IsCompared(a, bl) THEN acc
        ELSE IF a.gains.some /\ ~({ant1, ant2} \subseteq DOMAIN a.gains.v)
        THEN Raise(acc, "KeyError")
        ELSE IF a.gain_flags.some /\ ~({ant1, ant2} \subseteq DOMAIN a.gain_flags.v)
        THEN Raise(acc, "KeyError")
        ELSE LET wgts == EffWgts(a, bl, ant1, ant2)
                 ch == ChisqHere(a, bl, ModelHere(a, bl, ant1, ant2), wgts)
                 ob == ObsHere(wgts)
                 acc1 == MainUpdate(acc, a.split_by_antpol, ap1, ch, ob)
             IN  AntUpdate(AntUpdate(acc1, ant1, ch, ob), ant2, ch, ob)

\* the loop over data.keys() in the order the dictionary yields them; it
\* stops at the first exception, with what was accumulated until then
RECURSIVE ChisqLoop(_, _, _)
ChisqLoop(a, acc, order) ==
    IF order = <<>> \/ acc.status # "ok" THEN acc
    ELSE ChisqLoop(a, ChisqStep(a, acc, Head(order)), Tail(order))

PairMismatch_Never(x, y) == FALSE
\* (x is None) ^ (y is None)
PairMismatch(x, y) == (~x.some) # (~y.some)

\* the whole function: c, n, cpa, npa are the optional accumulators passed
Chisq(a, order, c, n, cpa, npa) ==
    LET acc0 == [status |-> "ok", chisq |-> c, nObs |-> n,
                 chisq_per_ant |-> cpa, nObs_per_ant |-> npa]
    IN  IF PairMismatch(c, n) THEN Raise(acc0, "ValueError")
        ELSE IF ~c.some /\ ~n.some /\ ~a.split_by_antpol /\ DOMAIN a.data = {}
        THEN Raise(acc0, "IndexError")
        ELSE IF PairMismatch(cpa, npa) THEN Raise(acc0, "ValueError")
        ELSE LET acc1 == IF ~c.some /\ ~n.some
                         THEN IF a.split_by_antpol
                              THEN [acc0 EXCEPT !.chisq = Some(EmptyDict),
                                                !.nObs = Some(EmptyDict)]
                              ELSE [acc0 EXCEPT !.chisq = Some(Zeros),
                                                !.nObs = Some(Zeros)]
                         ELSE acc0
                 acc2 == IF ~cpa.some /\ ~npa.some
                         THEN [acc1 EXCEPT !.chisq_per_ant = Some(EmptyDict),
                                           !.nObs_per_ant = Some(EmptyDict)]
                         ELSE acc1
             IN  ChisqLoop(a, acc2, order)

(***************************************************************************)
(* The inputs chisq is called with.                                        *)
(***************************************************************************)
\* the most calls of chisq a caller chains through its accumulators
MaxCalls == 2

XX == <<"x", "x">>
XY == <<"x", "y">>
YX == <<"y", "x">>
YY == <<"y", "y">>

\* a same-polarization baseline, a cross-polarized one sharing antenna
\* (0,'x') with it, and an autocorrelation (both ends the same antenna-pol)
BlKeys == {<<0, 1, XX>>, <<0, 1, XY>>, <<1, 1, YY>>}
AntPols == {<<0, "x">>, <<1, "x">>, <<1, "y">>}

\* the visibility samples: data, model and weight at pixel p of sample s
SampleData(s, p) == <<3 * ((s + p) % 2), 0>>
SampleModel(s, p) == <<4 * ((s + 1) % 2), 0>>
SampleWgt(s, p) == (s + 2 * p) % 3

DataOf(smp) == [bl \in BlKeys |-> [p \in Pix |-> SampleData(smp[bl], p)]]
ModelOf(smp) == [bl \in BlKeys |-> [p \in Pix |-> SampleModel(smp[bl], p)]]
WgtsOf(smp) == [bl \in BlKeys |-> [p \in Pix |-> SampleWgt(smp[bl], p)]]

\* gains: i for every antenna at pixel 1 and for antenna 0 elsewhere, else 1
FullGains ==
    [ap \in AntPols |-> [p \in Pix |-> IF p = 1 \/ ap[1] = 0 THEN <<0, 1>> ELSE <<1, 0>>]]
GainsSet == {None, Some(FullGains), Some(Restrict(FullGains, AntPols \ {<<1, "y">>}))}

\* gain flags: one antenna-pol flagged at pixel 1, nothing else flagged
FlagOne(ap0) == [ap \in AntPols |-> [p \in Pix |-> ap = ap0 /\ p = 1]]
GainFlagsSet == {None} \cup {Some(FlagOne(ap)) : ap \in AntPols}

\* the key sets of model and data_wgts: all of data's keys, or one missing
KeySets == {BlKeys} \cup {BlKeys \ {bl} : bl \in {<<0, 1, XX>>, <<0, 1, XY>>}}

VARIABLES
    data, model, data_wgts, gains, gain_flags, split_by_antpol,
    \* the accumulators the caller holds: the ones the last call returned
    chisq, nObs, chisq_per_ant, nObs_per_ant,
    \* the calls made so far: the keys of data, which accumulators were
    \* passed, the accumulators before the call and the exception raised
    cq_calls

chisqVars == <<data, model, data_wgts, gains, gain_flags, split_by_antpol,
               chisq, nObs, chisq_per_ant, nObs_per_ant, cq_calls>>

\* synthesize_ant_flags: its arguments and the dictionary it returned
VARIABLES flags, threshold, ant_flags

flagVars == <<flags, threshold, ant_flags>>

\* io.HERAData: the antenna pairs and polarizations it indexes, its
\* data_array, and the key and the result of the last _get_slice
VARIABLES blt_slices, polarization_array, polnum_indices, data_array,
          hd_key, hd_ret

hdVars == <<blt_slices, polarization_array, polnum_indices, data_array,
            hd_key, hd_ret>>

\* abscal.AbsCal.  heap holds the dictionaries that exist, by identity;
\* ac_model, ac_data and ac_wgts are self.model, self.data and self.wgts,
\* references into it, and bls is self.bls (None when the attribute was
\* never set, as are the gain attributes); heap0 is the heap as it was when
\* the constructor returned and ac_exc the exception of the last call
VARIABLES heap, heap0, ac_model, ac_data, ac_wgts, bls, freqs,
          gain_amp, gain_psi, gain_phi, delays, gain_array, ac_exc

acVars == <<heap, heap0, ac_model, ac_data, ac_wgts, bls, freqs,
            gain_amp, gain_psi, gain_phi, delays, gain_array, ac_exc>>

\* firstcal.FirstCalRedundantInfo and FirstCal.  reds is None until
\* init_from_reds has run; fc_A is the info's matrix A; bl2ind, blpair2ind
\* and blpair2antind_memo are the memo tables _bl2ind, _blpair2ind and
\* _blpair2antind, None while the attribute does not exist; fc_data and
\* fc_wgts are the FirstCal's data and wgts, fc_M its M, fc_ret what the last
\* call returned and fc_exc the exception it raised
VARIABLES reds, subsetant, bl_pairs, fc_A, bl2ind, blpair2ind, blpair2antind_memo,
          fc_data, fc_wgts, fc_M, fcal_A, xhat, fc_call, fc_ret, fc_exc

fcVars == <<reds, subsetant, bl_pairs, fc_A, bl2ind, blpair2ind, blpair2antind_memo,
            fc_data, fc_wgts, fc_M, fcal_A, xhat, fc_call, fc_ret, fc_exc>>

InitFCIdle ==
    /\ reds = None /\ subsetant = <<>> /\ bl_pairs = <<>> /\ fc_A = <<>>
    /\ bl2ind = None /\ blpair2ind = None /\ blpair2antind_memo = None
    /\ fc_data = EmptyDict /\ fc_wgts = EmptyDict /\ fc_M = None
    /\ fcal_A = None /\ xhat = None /\ fc_call = [op |-> "none", finetune |-> FALSE, average |-> FALSE]
    /\ fc_ret = None /\ fc_exc = "ok"

\* firstcal.redundant_bl_cal_simple: what it was called on, the folded
\* peak bins mxs it computed, what it returned and the exception it raised
VARIABLES rb_in, rb_mxs, rb_ret, rb_exc

rbVars == <<rb_in, rb_mxs, rb_ret, rb_exc>>

InitRBIdle == rb_in = None /\ rb_mxs = None /\ rb_ret = None /\ rb_exc = "ok"

\* FirstCal.data_to_delays with the iterations of its loop handed to a pool
\* of workers: dd_workers is every worker's iteration and its position in
\* it, dd_next the next pair of bl_pairs to hand out, blpair2delay the
\* output dictionary, dd_failed the iterations that raised, dd_writers and
\* dd_readers the iterations that wrote and that read the info's _bl2ind,
\* dd_slots the keys of blpair2delay every iteration wrote
VARIABLES dd_workers, dd_next, blpair2delay, dd_failed, dd_writers, dd_readers,
          dd_slots

ddVars == <<dd_workers, dd_next, blpair2delay, dd_failed, dd_writers, dd_readers,
            dd_slots>>

InitDDIdle ==
    /\ dd_workers = <<>> /\ dd_next = 0 /\ blpair2delay = EmptyDict
    /\ dd_failed = {} /\ dd_writers = {} /\ dd_readers = {} /\ dd_slots = {}

\* io.write_cal and io.update_uvcal: wc_gains and wc_flags are the gains and
\* flags the caller holds, cal the UVCal object (its ant_array, its pols,
\* its gain_array and flag_array), zc_in the gain and flag arrays as the
\* zero check found them, stdout what was printed, wc_call the last call
VARIABLES wc_gains, wc_flags, cal, zc_in, stdout, wc_call

wcVars == <<wc_gains, wc_flags, cal, zc_in, stdout, wc_call>>

InitWCIdle ==
    /\ wc_gains = EmptyDict /\ wc_flags = None /\ cal = None /\ zc_in = None
    /\ stdout = <<>> /\ wc_call = "none"

\* the calls made on an AbsCal object, in the order they were made
VARIABLES ac_log
logVars == <<ac_log>>

InitACLogIdle == ac_log = <<>>

\* the last _set_slice on the HERAData object: its key, the keys of the
\* dictionary it was given, the data_array before it and its exception
VARIABLES hd_set
setVars == <<hd_set>>

InitHDSetIdle == hd_set = [some |-> FALSE]

\* io.HERAData.partial_write: the file type and the number of files of the
\* object, its flag_array and nsample_array, its _writers, the output files
\* on disk and the calls made
VARIABLES filetype, nfiles, flag_array, nsample_array, writers, files, pw_log
pwVars == <<filetype, nfiles, flag_array, nsample_array, writers, files, pw_log>>

InitPWIdle ==
    /\ filetype = "uvh5" /\ nfiles = 1 /\ flag_array = <<>> /\ nsample_array = <<>>
    /\ writers = <<>> /\ files = <<>> /\ pw_log = <<>>

vars == <<chisqVars, flagVars, hdVars, acVars, fcVars, rbVars, ddVars, wcVars, logVars, setVars, pwVars>>

\* each specification runs one part of the program; the others stay idle
InitFlagsIdle == flags = EmptyDict /\ threshold = <<0, 1>> /\ ant_flags = None

InitHDIdle ==
    /\ blt_slices = EmptyDict /\ polarization_array = <<>>
    /\ polnum_indices = EmptyDict /\ data_array = EmptyDict
    /\ hd_key = None /\ hd_ret = None

InitACIdle ==
    /\ heap = EmptyDict /\ heap0 = EmptyDict
    /\ ac_model = 0 /\ ac_data = 0 /\ ac_wgts = 0 /\ bls = None /\ freqs = None
    /\ gain_amp = None /\ gain_psi = None /\ gain_phi = None /\ delays = None
    /\ gain_array = None /\ ac_exc = "ok"

othersOfChisq == <<flagVars, hdVars, acVars, fcVars, rbVars, ddVars, wcVars, logVars, setVars, pwVars>>
InitOthersOfChisq == InitFlagsIdle /\ InitHDIdle /\ InitACIdle /\ InitFCIdle /\ InitRBIdle /\ InitDDIdle /\ InitWCIdle /\ InitACLogIdle /\ InitHDSetIdle /\ InitPWIdle
othersOfFlags == <<chisqVars, hdVars, acVars, fcVars, rbVars, ddVars, wcVars, logVars, setVars, pwVars>>
othersOfHD == <<chisqVars, flagVars, acVars, fcVars, rbVars, ddVars, wcVars, logVars, setVars, pwVars>>
othersOfAC == <<chisqVars, flagVars, hdVars, fcVars, rbVars, ddVars, wcVars, logVars, setVars, pwVars>>
othersOfFC == <<chisqVars, flagVars, hdVars, acVars, rbVars, ddVars, wcVars, logVars, setVars, pwVars>>
othersOfRB == <<chisqVars, flagVars, hdVars, acVars, fcVars, ddVars, wcVars, logVars, setVars, pwVars>>
othersOfDD == <<chisqVars, flagVars, hdVars, acVars, fcVars, rbVars, wcVars, logVars, setVars, pwVars>>
\* the state outside the FirstCal and its pool of workers
othersOfPool == <<chisqVars, flagVars, hdVars, acVars, rbVars, wcVars, logVars, setVars, pwVars>>
othersOfWC == <<chisqVars, flagVars, hdVars, acVars, fcVars, rbVars, ddVars, logVars, setVars, pwVars>>
\* the state outside the AbsCal object and the log of its calls
othersOfACAgain == <<chisqVars, flagVars, hdVars, fcVars, rbVars, ddVars, wcVars, setVars, pwVars>>
\* the state outside the HERAData object and its last _set_slice
othersOfHDSet == <<chisqVars, flagVars, acVars, fcVars, rbVars, ddVars, wcVars, logVars, pwVars>>
\* the state outside the HERAData object and its output files
othersOfPW == <<chisqVars, flagVars, acVars, fcVars, rbVars, ddVars, wcVars, logVars, setVars>>

\* the arguments of a call on the baselines S of data
Args(S) ==
    [data |-> Restrict(data, S), model |-> model, data_wgts |-> data_wgts,
     gains |-> gains, gain_flags |-> gain_flags, split_by_antpol |-> split_by_antpol]

Held == [chisq |-> chisq, nObs |-> nObs,
         chisq_per_ant |-> chisq_per_ant, nObs_per_ant |-> nObs_per_ant]

InitChisqIdle ==
    /\ data = EmptyDict /\ model = EmptyDict /\ data_wgts = EmptyDict
    /\ gains = None /\ gain_flags = None /\ split_by_antpol = FALSE
    /\ chisq = None /\ nObs = None /\ chisq_per_ant = None /\ nObs_per_ant = None
    /\ cq_calls = <<>>

InitOthersOfFlags == InitChisqIdle /\ InitHDIdle /\ InitACIdle /\ InitFCIdle /\ InitRBIdle /\ InitDDIdle /\ InitWCIdle /\ InitACLogIdle /\ InitHDSetIdle /\ InitPWIdle
InitOthersOfHD == InitChisqIdle /\ InitFlagsIdle /\ InitACIdle /\ InitFCIdle /\ InitRBIdle /\ InitDDIdle /\ InitWCIdle /\ InitACLogIdle /\ InitHDSetIdle /\ InitPWIdle
InitOthersOfAC == InitChisqIdle /\ InitFlagsIdle /\ InitHDIdle /\ InitFCIdle /\ InitRBIdle /\ InitDDIdle /\ InitWCIdle /\ InitACLogIdle /\ InitHDSetIdle /\ InitPWIdle
InitOthersOfFC == InitChisqIdle /\ InitFlagsIdle /\ InitHDIdle /\ InitACIdle /\ InitRBIdle /\ InitDDIdle /\ InitWCIdle /\ InitACLogIdle /\ InitHDSetIdle /\ InitPWIdle
InitOthersOfRB == InitChisqIdle /\ InitFlagsIdle /\ InitHDIdle /\ InitACIdle /\ InitFCIdle /\ InitDDIdle /\ InitWCIdle /\ InitACLogIdle /\ InitHDSetIdle /\ InitPWIdle
InitOthersOfDD == InitChisqIdle /\ InitFlagsIdle /\ InitHDIdle /\ InitACIdle /\ InitFCIdle /\ InitRBIdle /\ InitWCIdle /\ InitACLogIdle /\ InitHDSetIdle /\ InitPWIdle
InitOthersOfPool == InitChisqIdle /\ InitFlagsIdle /\ InitHDIdle /\ InitACIdle /\ InitRBIdle /\ InitWCIdle /\ InitACLogIdle /\ InitHDSetIdle /\ InitPWIdle
InitOthersOfWC == InitChisqIdle /\ InitFlagsIdle /\ InitHDIdle /\ InitACIdle /\ InitFCIdle /\ InitRBIdle /\ InitDDIdle /\ InitACLogIdle /\ InitHDSetIdle /\ InitPWIdle
InitOthersOfACAgain == InitChisqIdle /\ InitFlagsIdle /\ InitHDIdle /\ InitFCIdle /\ InitRBIdle /\ InitDDIdle /\ InitWCIdle /\ InitHDSetIdle /\ InitPWIdle
InitOthersOfHDSet == InitChisqIdle /\ InitFlagsIdle /\ InitACIdle /\ InitFCIdle /\ InitRBIdle /\ InitDDIdle /\ InitWCIdle /\ InitACLogIdle /\ InitPWIdle
InitOthersOfPW == InitChisqIdle /\ InitFlagsIdle /\ InitACIdle /\ InitFCIdle /\ InitRBIdle /\ InitDDIdle /\ InitWCIdle /\ InitACLogIdle /\ InitHDSetIdle

InitAccumulators ==
    /\ chisq = None /\ nObs = None /\ chisq_per_ant = None /\ nObs_per_ant = None
    /\ cq_calls = <<>>

\* the caller calls chisq on the baselines S of its data, passing those of
\* the accumulators it holds that pass names; an accumulator passed is
\* updated in place, so it keeps what was added before an exception
CallChisq(S, pass, order) ==
    /\ LET r == Chisq(Args(S), order,
                      IF pass[1] THEN chisq ELSE None,
                      IF pass[2] THEN nObs ELSE None,
                      IF pass[3] THEN chisq_per_ant ELSE None,
                      IF pass[4] THEN nObs_per_ant ELSE None)
           After(p, held, new) ==
               IF p \/ r.status = "ok" THEN new ELSE held
       IN  /\ chisq' = After(pass[1], chisq, r.chisq)
           /\ nObs' = After(pass[2], nObs, r.nObs)
           /\ chisq_per_ant' = After(pass[3], chisq_per_ant, r.chisq_per_ant)
           /\ nObs_per_ant' = After(pass[4], nObs_per_ant, r.nObs_per_ant)
           /\ cq_calls' = Append(cq_calls, [keys |-> S, pass |-> pass,
                                            before |-> Held, status |-> r.status])
    /\ UNCHANGED <<data, model, data_wgts, gains, gain_flags, split_by_antpol>>
    /\ UNCHANGED othersOfChisq

NoPass == [i \in 1..4 |-> FALSE]
\* every accumulator the caller holds
HeldPass == <<chisq.some, nObs.some, chisq_per_ant.some, nObs_per_ant.some>>

Fresh(a, order) == Chisq(a, order, None, None, None, None)

(***************************************************************************)
(* SpecChisq: a caller accumulates chisq over subsets of its baselines,    *)
(* call after call, passing each call the accumulators it holds (none on   *)
(* the first call).                                                        *)
(***************************************************************************)
InitChisq ==
    /\ InitOthersOfChisq
    /\ \E smp \in [BlKeys -> 0..(NSamples - 1)] :
          /\ data = DataOf(smp)
          /\ model = ModelOf(smp)
          /\ data_wgts = WgtsOf(smp)
    /\ gains \in GainsSet
    /\ gain_flags = None
    /\ split_by_antpol \in BOOLEAN
    /\ InitAccumulators

ChisqCall ==
    /\ Len(cq_calls) < MaxCalls
    /\ \E S \in SUBSET BlKeys : \E order \in Orders(S) :
          CallChisq(S, HeldPass, order)

NextChisq == ChisqCall

SpecChisq == InitChisq /\ [][NextChisq]_vars

(***************************************************************************)
(* SpecChisqArgs: a caller that holds the accumulators of an earlier call  *)
(* makes one call on a non-empty data dictionary, passing any of the four. *)
(***************************************************************************)
InitChisqArgs ==
    /\ InitOthersOfChisq
    /\ \E smp \in [BlKeys -> 0..(NSamples - 1)] :
          /\ data = DataOf(smp)
          /\ model = ModelOf(smp)
          /\ data_wgts = WgtsOf(smp)
    /\ gains = None
    /\ gain_flags = None
    /\ split_by_antpol \in BOOLEAN
    /\ \E S0 \in SUBSET BlKeys \ {{}} :
          LET r == Fresh([data |-> Restrict(data, S0), model |-> model,
                          data_wgts |-> data_wgts, gains |-> gains,
                          gain_flags |-> gain_flags,
                          split_by_antpol |-> split_by_antpol],
                         CHOOSE o \in Orders(S0) : TRUE)
          IN  /\ chisq = r.chisq /\ nObs = r.nObs
              /\ chisq_per_ant = r.chisq_per_ant /\ nObs_per_ant = r.nObs_per_ant
    /\ cq_calls = <<>>

ChisqWithArgs ==
    /\ cq_calls = <<>>
    /\ \E S \in SUBSET BlKeys \ {{}} : \E pass \in [1..4 -> BOOLEAN] :
          \E order \in Orders(S) : CallChisq(S, pass, order)

NextChisqArgs == ChisqWithArgs

SpecChisqArgs == InitChisqArgs /\ [][NextChisqArgs]_vars

(***************************************************************************)
(* SpecChisqOnce: one call of chisq on all baselines, fresh accumulators.  *)
(***************************************************************************)
InitChisqOnce ==
    /\ InitOthersOfChisq
    /\ \E smp \in [BlKeys -> 0..(NSamples - 1)] : \E mk \in KeySets : \E wk \in KeySets :
          /\ data = DataOf(smp)
          /\ model = Restrict(ModelOf(smp), mk)
          /\ data_wgts = Restrict(WgtsOf(smp), wk)
    /\ gains \in GainsSet
    /\ gain_flags \in GainFlagsSet
    /\ split_by_antpol \in BOOLEAN
    /\ InitAccumulators

ChisqOnce ==
    /\ cq_calls = <<>>
    /\ \E order \in Orders(BlKeys) : CallChisq(BlKeys, NoPass, order)

NextChisqOnce == ChisqOnce

SpecChisqOnce == InitChisqOnce /\ [][NextChisqOnce]_vars

(***************************************************************************)
(* Claims about chisq.                                                     *)
(***************************************************************************)
RECURSIVE SumF(_, _)
SumF(S, f) ==
    IF S = {} THEN 0
    ELSE LET x == CHOOSE y \in S : TRUE IN f[x] + SumF(S \ {x}, f)

\* the value of a dictionary of waterfalls at a key and pixel, 0 without the key
Val(d, k, p) == IF k \in DOMAIN d THEN d[k][p] ELSE 0

SameAccumulators(r) ==
    /\ r.chisq = chisq /\ r.nObs = nObs
    /\ r.chisq_per_ant = chisq_per_ant /\ r.nObs_per_ant = nObs_per_ant

AllCallsOk == \A i \in 1..Len(cq_calls) : cq_calls[i].status = "ok"
KeysDisjoint ==
    \A i, j \in 1..Len(cq_calls) :
        i < j => cq_calls[i].keys \cap cq_calls[j].keys = {}
Chained ==
    /\ cq_calls[1].pass = NoPass
    /\ \A i \in 2..Len(cq_calls) : cq_calls[i].pass = [k \in 1..4 |-> TRUE]
KeysSoFar == UNION {cq_calls[i].keys : i \in 1..Len(cq_calls)}

\* C1: chisq on S1, then chisq on S2 (disjoint from S1) with the four
\* accumulators the first call returned, gives the four results of one call
\* of chisq on S1 \cup S2, whatever the order the baselines are visited in
\* and in both split_by_antpol modes (likewise for longer chains).
C1_Additivity ==
    (Len(cq_calls) >= 2 /\ AllCallsOk /\ KeysDisjoint /\ Chained) =>
        \A order \in Orders(KeysSoFar) :
            LET one == Fresh(Args(KeysSoFar), order)
            IN  one.status = "ok" /\ SameAccumulators(one)

\* two calls on disjoint non-empty subsets that both add to one antenna
C1_Witness ==
    /\ Len(cq_calls) = 2 /\ AllCallsOk /\ KeysDisjoint /\ Chained
    /\ cq_calls[1].keys = {<<0, 1, XX>>}
    /\ cq_calls[2].keys = {<<0, 1, XY>>, <<1, 1, YY>>}
    /\ ~split_by_antpol
    /\ \E p \in Pix :
          /\ cq_calls[2].before.chisq_per_ant.v[<<0, "x">>][p] > 0
          /\ chisq_per_ant.v[<<0, "x">>][p]
                > cq_calls[2].before.chisq_per_ant.v[<<0, "x">>][p]

Compared(S) == {bl \in S : IsCompared(Args(S), bl)}
Ant1(bl) == <<bl[1], split_pol(bl[3])[1]>>
Ant2(bl) == <<bl[2], split_pol(bl[3])[2]>>
Residual(bl, p) ==
    CSub(ModelHere(Args(BlKeys), bl, Ant1(bl), Ant2(bl))[p], data[bl][p])
LastOk == cq_calls # <<>> /\ cq_calls[Len(cq_calls)].status = "ok"

\* C3: with fresh accumulators the chisq returned is, at each pixel, the sum
\* over the compared baselines of |data - model g_i conj(g_j)|^2 times the
\* weight: the magnitude of the residual is squared.
C3_ChisqIsSumOfSquares ==
    (LastOk /\ ~split_by_antpol) =>
        \A p \in Pix :
            chisq.v[p] =
                SumF(Compared(BlKeys),
                     [bl \in Compared(BlKeys) |->
                        NormSq(Residual(bl, p))
                          * EffWgts(Args(BlKeys), bl, Ant1(bl), Ant2(bl))[p]])

\* what the code returns: the magnitude of the residual, not squared
ChisqIsSumOfMagnitudes ==
    (LastOk /\ ~split_by_antpol) =>
        \A p \in Pix :
            chisq.v[p] =
                SumF(Compared(BlKeys),
                     [bl \in Compared(BlKeys) |->
                        CAbs(Residual(bl, p))
                          * EffWgts(Args(BlKeys), bl, Ant1(bl), Ant2(bl))[p]])

\* the arguments of the call on all baselines, with other weights, gain
\* flags and split_by_antpol
ArgsWith(S, w, gf, split) ==
    [Args(S) EXCEPT !.data_wgts = w, !.gain_flags = gf, !.split_by_antpol = split]

Flagged(ant, p) == gain_flags.v[ant][p]
\* data_wgts with a zero wherever an antenna of the baseline is flagged
MaskedWgts ==
    [bl \in DOMAIN data_wgts |->
        [p \in Pix |-> IF Flagged(Ant1(bl), p) \/ Flagged(Ant2(bl), p)
                       THEN 0 ELSE data_wgts[bl][p]]]

AnOrder(S) == CHOOSE o \in Orders(S) : TRUE

\* the four results at pixel p agree with those of r
SameAtPixel(r, p) ==
    /\ IF split_by_antpol
       THEN \A ap \in {"x", "y"} :
              /\ Val(r.chisq.v, ap, p) = Val(chisq.v, ap, p)
              /\ Val(r.nObs.v, ap, p) = Val(nObs.v, ap, p)
       ELSE r.chisq.v[p] = chisq.v[p] /\ r.nObs.v[p] = nObs.v[p]
    /\ \A ant \in AntPols :
          /\ Val(r.chisq_per_ant.v, ant, p) = Val(chisq_per_ant.v, ant, p)
          /\ Val(r.nObs_per_ant.v, ant, p) = Val(nObs_per_ant.v, ant, p)

\* C4: with gain_flags given, the four results are those of a call without
\* gain_flags whose weights are data_wgts where neither antenna of the
\* baseline is flagged and zero where one is; and at a pixel where an
\* antenna of a baseline is flagged, they are what they are without that
\* baseline: it adds nothing to chisq, nObs, chisq_per_ant, nObs_per_ant.
C4_GainFlagsZeroWeight ==
    (LastOk /\ gain_flags.some) =>
        /\ SameAccumulators(
              Fresh(ArgsWith(BlKeys, MaskedWgts, None, split_by_antpol), AnOrder(BlKeys)))
        /\ \A bl \in Compared(BlKeys) : \A p \in Pix :
              (Flagged(Ant1(bl), p) \/ Flagged(Ant2(bl), p)) =>
                  SameAtPixel(Fresh(Args(BlKeys \ {bl}), AnOrder(BlKeys \ {bl})), p)

\* a compared baseline with non-zero weight and residual at a pixel where
\* only its second antenna is flagged
C4_Witness ==
    /\ LastOk /\ gain_flags.some
    /\ \E bl \in Compared(BlKeys) : \E p \in Pix :
          /\ Ant1(bl) # Ant2(bl)
          /\ ~Flagged(Ant1(bl), p) /\ Flagged(Ant2(bl), p)
          /\ data_wgts[bl][p] > 0
          /\ NormSq(Residual(bl, p)) > 0

IsCrossPol(bl) == split_pol(bl[3])[1] # split_pol(bl[3])[2]
OfAntPol(S, ap) == {bl \in S : split_pol(bl[3]) = <<ap, ap>>}

\* C5: with split_by_antpol, chisq and nObs are dictionaries keyed by
\* antenna polarization; the four results are those of a call without the
\* cross-polarized baselines; and the chisq and nObs of an antenna
\* polarization are those of an unsplit call on the baselines of that
\* polarization alone.
C5_SplitByAntpol ==
    (LastOk /\ split_by_antpol) =>
        /\ DOMAIN chisq.v \subseteq {"x", "y"}
        /\ DOMAIN nObs.v = DOMAIN chisq.v
        /\ LET same == {bl \in BlKeys : ~IsCrossPol(bl)}
           IN  SameAccumulators(Fresh(Args(same), AnOrder(same)))
        /\ \A ap \in {"x", "y"} :
              LET own == OfAntPol(BlKeys, ap)
                  r == Fresh(ArgsWith(own, data_wgts, gain_flags, FALSE), AnOrder(own))
              IN  IF ap \in DOMAIN chisq.v
                  THEN /\ r.status = "ok"
                       /\ chisq.v[ap] = r.chisq.v
                       /\ nObs.v[ap] = r.nObs.v
                  ELSE Compared(own) = {}

\* a split call whose data hold a compared cross-polarized baseline with
\* non-zero weight and residual, and baselines of both polarizations
C5_Witness ==
    /\ LastOk /\ split_by_antpol
    /\ DOMAIN chisq.v = {"x", "y"}
    /\ \E bl \in BlKeys : \E p \in Pix :
          /\ IsCrossPol(bl)
          /\ bl \in DOMAIN model /\ bl \in DOMAIN data_wgts
          /\ EffWgts(Args(BlKeys), bl, Ant1(bl), Ant2(bl))[p] > 0
          /\ NormSq(Residual(bl, p)) > 0

(***************************************************************************)
(* utils.synthesize_ant_flags.  fl is the DataContainer of boolean flag    *)
(* waterfalls; a threshold is the fraction <<num, den>>.                   *)
(***************************************************************************)
\* thresholds are the multiples of 1/TDen in [0, 1]
TDen == 4
Thresholds == {<<n, TDen>> : n \in 0..TDen}

\* the two antenna-pol keys of a baseline key
End1(bl) == <<bl[1], split_pol(bl[3])[1]>>
End2(bl) == <<bl[2], split_pol(bl[3])[2]>>

\* antpols: every antenna-pol of every key
FlagAntPols(fl) == UNION {{End1(bl), End2(bl)} : bl \in DOMAIN fl}

IsExcluded_Any(fl, ap) ==
    \E bl \in DOMAIN fl :
        (ap = End1(bl) \/ ap = End2(bl)) /\ \A p \in Pix : fl[bl][p]
\* is_excluded: no baseline of the antenna-pol has an unflagged pixel
IsExcluded(fl, ap) ==
    \A bl \in DOMAIN fl :
        (ap = End1(bl) \/ ap = End2(bl)) => \A p \in Pix : fl[bl][p]

IsCounted_Always(fl, bl) == TRUE
\* "if not is_excluded[ap1] and not is_excluded[ap2]"
IsCounted(fl, bl) == ~IsExcluded(fl, End1(bl)) /\ ~IsExcluded(fl, End2(bl))

\* how often the second loop adds a baseline to the counts of ap
Adds(bl, ap) == B2I(End1(bl) = ap) + B2I(End2(bl) = ap)

\* ant_Nvis[ap] after the second loop
AntNvis(fl, ap) ==
    LET S == {bl \in DOMAIN fl : IsCounted(fl, bl)}
    IN  SumF(S, [bl \in S |-> Adds(bl, ap)])

\* ant_Nflag[ap] at pixel p after the second loop
AntNflag(fl, ap, p) ==
    LET S == {bl \in DOMAIN fl : IsCounted(fl, bl)}
    IN  SumF(S, [bl \in S |-> Adds(bl, ap) * B2I(fl[bl][p])])

\* np.isclose(threshold, 1.0): |threshold - 1| <= 1e-8 + 1e-5
IsCloseToOne(t) == AbsInt(t[1] - t[2]) * 100000000 <= 1001 * t[2]

Exceeds_Reversed(nflag, nvis, t) == nflag * t[2] < nvis * t[1]
\* (ant_Nflag / ant_Nvis) > threshold, the threshold lowered by 1e-10 when
\* it is close to 1: with integer counts and nvis * den < 1e10, a fraction
\* exceeds t - 1e-10 exactly when it is at least t.  A count of 0 has been
\* replaced by 1e-10, and nflag / 1e-10 exceeds any threshold unless nflag = 0
Exceeds(nflag, nvis, t) ==
    IF nvis = 0 THEN nflag > 0
    ELSE IF IsCloseToOne(t) THEN nflag * t[2] >= nvis * t[1]
    ELSE nflag * t[2] > nvis * t[1]

\* the whole function
synthesize_ant_flags(fl, t) ==
    [ap \in FlagAntPols(fl) |->
        [p \in Pix |->
            IF IsExcluded(fl, ap) THEN TRUE
            ELSE Exceeds(AntNflag(fl, ap, p), AntNvis(fl, ap), t)]]

\* three antennas, one of them with two polarizations, and an autocorrelation
FlagKeys == {<<0, 1, XX>>, <<0, 2, XX>>, <<1, 2, XY>>, <<0, 0, XX>>}

(***************************************************************************)
(* SpecFlags: synthesize_ant_flags is called on a flag container with one  *)
(* threshold after another.                                                *)
(***************************************************************************)
\* the flag waterfalls of a baseline: nothing flagged, everything flagged,
\* the first pixel alone, all but the first pixel
FlagWaterfalls ==
    {[p \in Pix |-> FALSE], [p \in Pix |-> TRUE],
     [p \in Pix |-> p = 1], [p \in Pix |-> p # 1]}

InitFlags ==
    /\ InitOthersOfFlags
    /\ flags \in [FlagKeys -> FlagWaterfalls]
    /\ threshold = <<0, TDen>>
    /\ ant_flags = None

SynthesizeAntFlags ==
    \E t \in Thresholds :
        /\ threshold' = t
        /\ ant_flags' = Some(synthesize_ant_flags(flags, t))
        /\ UNCHANGED flags
        /\ UNCHANGED othersOfFlags

NextFlags == SynthesizeAntFlags

SpecFlags == InitFlags /\ [][NextFlags]_vars

(***************************************************************************)
(* Claims about synthesize_ant_flags.                                      *)
(***************************************************************************)
\* t1 <= t2 as fractions
Leq(t1, t2) == t1[1] * t2[2] <= t2[1] * t1[2]

\* C6: for thresholds t1 <= t2 in [0, 1], every antenna-pol pixel flagged
\* at t2 is flagged at t1: the flags returned for a threshold include those
\* of every higher threshold and lie within those of every lower one.
C6_Monotone ==
    ant_flags.some =>
        \A t \in Thresholds : \A ap \in DOMAIN ant_flags.v : \A p \in Pix :
            LET other == synthesize_ant_flags(flags, t)[ap][p]
            IN  /\ Leq(threshold, t) => (other => ant_flags.v[ap][p])
                /\ Leq(t, threshold) => (ant_flags.v[ap][p] => other)

\* a pixel of a live antenna-pol flagged at the threshold of the call and
\* not at a higher one
C6_Witness ==
    /\ ant_flags.some
    /\ \E t \in Thresholds : \E ap \in DOMAIN ant_flags.v : \E p \in Pix :
          /\ Leq(threshold, t) /\ ~IsExcluded(flags, ap)
          /\ ant_flags.v[ap][p]
          /\ ~synthesize_ant_flags(flags, t)[ap][p]

\* the container without the baselines that have a dead antenna-pol
WithoutDead(fl) ==
    Restrict(fl, {bl \in DOMAIN fl :
                    ~IsExcluded(fl, End1(bl)) /\ ~IsExcluded(fl, End2(bl))})

\* C7: the flags of a live antenna-pol are those computed from the
\* container with every baseline to a dead antenna-pol removed.
C7_DeadExcluded ==
    ant_flags.some =>
        \A ap \in DOMAIN ant_flags.v :
            ~IsExcluded(flags, ap) =>
                /\ ap \in FlagAntPols(WithoutDead(flags))
                /\ ant_flags.v[ap] =
                      synthesize_ant_flags(WithoutDead(flags), threshold)[ap]

\* a live antenna-pol with a baseline to a dead one, unflagged at threshold
\* 0 at a pixel: counting the dead baseline would have flagged it
C7_Witness ==
    /\ ant_flags.some /\ threshold[1] = 0
    /\ \E bl \in DOMAIN flags : \E p \in Pix :
          /\ ~IsExcluded(flags, End1(bl)) /\ IsExcluded(flags, End2(bl))
          /\ ~ant_flags.v[End1(bl)][p]

\* the counted baselines one of whose ends is ap
CountedOf(ap) ==
    {bl \in DOMAIN flags :
        /\ ap \in {End1(bl), End2(bl)}
        /\ ~IsExcluded(flags, End1(bl)) /\ ~IsExcluded(flags, End2(bl))}

EndsOf(ap) == {e \in CountedOf(ap) \X {1, 2} :
                  ap = (IF e[2] = 1 THEN End1(e[1]) ELSE End2(e[1]))}

StrKey(pol) == [str |-> TRUE, ants |-> <<>>, pol |-> pol]
TupKey(ants, pol) == [str |-> FALSE, ants |-> ants, pol |-> pol]
KeyLen(key) == Len(key.ants) + (IF key.pol = <<>> THEN 0 ELSE 1)

PI == <<"p", "I">>
PQ == <<"p", "Q">>
polnum2str(n) == CHOOSE pol \in {XX, YY, XY, YX, PI, PQ} : polstr2num(pol) = n

WConj(w) == [p \in Pix |-> CConj(w[p])]

\* HERAData._determine_pol_indexing
PolnumIndices(polarr) ==
    [n \in {polarr[i] : i \in 1..Len(polarr)} |->
        (CHOOSE i \in 1..Len(polarr) : polarr[i] = n) - 1]

\* data_array[blt_slice, 0, :, pol_index], KeyError when the antenna pair
\* or the polarization number is not indexed
SliceAt(da, antpair, polnum) ==
    IF antpair \in DOMAIN blt_slices /\ polnum \in DOMAIN polnum_indices
    THEN [exc |-> "ok", v |-> da[blt_slices[antpair]][polnum_indices[polnum]]]
    ELSE [exc |-> "KeyError"]

GetSliceFallback_NoConj(da, key) ==
    SliceAt(da, <<key[2], key[1]>>, polstr2num(conj_pol(key[3])))
\* the except branch: the reversed pair at the conjugate polarization, conjugated
GetSliceFallback(da, key) ==
    LET r == SliceAt(da, <<key[2], key[1]>>, polstr2num(conj_pol(key[3])))
    IN  IF r.exc = "ok" THEN [exc |-> "ok", v |-> WConj(r.v)] ELSE r

\* _get_slice on a baseline-pol triple
GetSliceBl(da, key) ==
    LET r == SliceAt(da, <<key[1], key[2]>>, polstr2num(key[3]))
    IN  IF r.exc = "KeyError" THEN GetSliceFallback(da, key) ELSE r

\* a dict comprehension of _get_slice results, blOf giving the baseline-pol
\* triple looked up for every key of the result: the first KeyError leaves it
GetSliceDict(da, blOf) ==
    IF \E k \in DOMAIN blOf : GetSliceBl(da, blOf[k]).exc # "ok"
    THEN [exc |-> "KeyError"]
    ELSE [exc |-> "ok", v |-> [k \in DOMAIN blOf |-> GetSliceBl(da, blOf[k]).v]]

get_slice(da, key) ==
    IF key.str
    THEN GetSliceDict(da, [antpair \in DOMAIN blt_slices |->
                              <<antpair[1], antpair[2], key.pol>>])
    ELSE IF KeyLen(key) = 2
    THEN GetSliceDict(da, [pol \in {polnum2str(polarization_array[i]) :
                                       i \in 1..Len(polarization_array)} |->
                              <<key.ants[1], key.ants[2], pol>>])
    ELSE IF KeyLen(key) = 3
    THEN GetSliceBl(da, <<key.ants[1], key.ants[2], key.pol>>)
    ELSE [exc |-> "KeyError"]

(***************************************************************************)
(* The HERAData objects and the keys looked up.                            *)
(***************************************************************************)
HdAnts == 0..1
HdPols == {XX, YY, XY, YX, PI, PQ}

AntPairSets == {{<<0, 1>>}, {<<0, 1>>, <<1, 1>>}, {<<0, 1>>, <<1, 0>>},
                {<<1, 0>>, <<0, 0>>}}
PolArrays == {<<polstr2num(XX)>>, <<polstr2num(XY)>>,
              <<polstr2num(XY), polstr2num(YX)>>,
              <<polstr2num(XX), polstr2num(YY), polstr2num(XY), polstr2num(YX)>>,
              <<polstr2num(PI), polstr2num(PQ)>>}

\* the rows of an antenna pair in the baseline-time axis
BltSlices(S) == [antpair \in S |-> 1 + 2 * antpair[1] + antpair[2]]

\* a different complex number, never real, in every cell of the array
HdVal(d, row, k, p) == <<row + 10 * k, p + d>>
DataArray(d, S, polarr) ==
    [row \in {BltSlices(S)[antpair] : antpair \in S} |->
        [k \in 0..(Len(polarr) - 1) |-> [p \in Pix |-> HdVal(d, row, k, p)]]]

HdKeys ==
    {StrKey(pol) : pol \in HdPols}
      \cup {TupKey(<<i, j>>, <<>>) : i \in HdAnts, j \in HdAnts}
      \cup {TupKey(<<i, j>>, pol) : i \in HdAnts, j \in HdAnts, pol \in HdPols}
      \cup {TupKey(<<0>>, <<>>)}

InitHD ==
    /\ \E S \in AntPairSets : \E polarr \in PolArrays : \E d \in 1..NSamples :
          /\ blt_slices = BltSlices(S)
          /\ polarization_array = polarr
          /\ polnum_indices = PolnumIndices(polarr)
          /\ data_array = DataArray(d, S, polarr)
    /\ hd_key = None /\ hd_ret = None
    /\ InitOthersOfHD

GetSlice ==
    \E key \in HdKeys :
        /\ hd_key' = Some(key)
        /\ hd_ret' = get_slice(data_array, key)
        /\ UNCHANGED <<blt_slices, polarization_array, polnum_indices, data_array>>
        /\ UNCHANGED othersOfHD

NextHD == GetSlice

SpecHD == InitHD /\ [][NextHD]_vars

(***************************************************************************)
(* C9.  Conjugate symmetry of lookup.                                      *)
(***************************************************************************)
StoredPols == {polnum2str(polarization_array[i]) : i \in 1..Len(polarization_array)}

\* baseline (i,j), i # j, is stored and (j,i) is not
OneOrientation(i, j) ==
    /\ i # j
    /\ <<i, j>> \in DOMAIN blt_slices
    /\ <<j, i>> \notin DOMAIN blt_slices

\* C9: when the object stores (i,j), i # j, and not (j,i), then for every
\* stored polarization pol a lookup of (j,i,conj_pol(pol)) that has just
\* returned gave the complex conjugate of what the lookup of (i,j,pol)
\* gives, a lookup of (i,j,pol) that has just returned gave a waterfall
\* whose conjugate is what the lookup of (j,i,conj_pol(pol)) gives, and
\* neither raises; conj_pol swaps the letters of a linear polarization,
\* keeps a Stokes one, and applied twice returns the polarization.
C9_ConjugateSymmetry ==
    /\ \A pol \in HdPols :
          /\ conj_pol(conj_pol(pol)) = pol
          /\ conj_pol(pol) = IF polstr2num(pol) > 0 THEN pol ELSE <<pol[2], pol[1]>>
    /\ \A i \in HdAnts, j \in HdAnts : \A pol \in StoredPols :
          OneOrientation(i, j) =>
             LET fwd == GetSliceBl(data_array, <<i, j, pol>>)
                 rev == GetSliceBl(data_array, <<j, i, conj_pol(pol)>>)
             IN  /\ fwd.exc = "ok" /\ rev.exc = "ok"
                 /\ hd_key = Some(TupKey(<<j, i>>, conj_pol(pol))) =>
                       hd_ret = [exc |-> "ok", v |-> WConj(fwd.v)]
                 /\ hd_key = Some(TupKey(<<i, j>>, pol)) =>
                       /\ hd_ret.exc = "ok"
                       /\ rev.v = WConj(hd_ret.v)

\* a reversed cross-polarization key whose conjugate polarization is not
\* stored has been looked up, and what came back is not the stored waterfall
C9_Witness ==
    /\ hd_key.some /\ ~hd_key.v.str /\ KeyLen(hd_key.v) = 3
    /\ LET i == hd_key.v.ants[2]
           j == hd_key.v.ants[1]
           pol == conj_pol(hd_key.v.pol)
       IN  /\ OneOrientation(i, j)
           /\ pol = XY /\ pol \in StoredPols /\ conj_pol(pol) \notin StoredPols
           /\ hd_ret.exc = "ok"
           /\ hd_ret.v # GetSliceBl(data_array, <<i, j, pol>>).v
           /\ hd_ret.v = WConj(GetSliceBl(data_array, <<i, j, pol>>).v)

(***************************************************************************)
(* abscal.AbsCal.  A visibility array has a shape (Ntimes, Nfreqs, Npols)  *)
(* and a value at every index; a dictionary key is an antenna pair,        *)
(* followed by the tags that unravel appended to it.                       *)
(***************************************************************************)
Ntimes == 2
Nfreqs == 2
Npols == 1

Idx(shape) == (1..shape[1]) \X (1..shape[2]) \X (1..shape[3])
AcKey(bl) == [bl |-> bl, tags |-> <<>>]
AcBls == {<<0, 1>>, <<1, 2>>}

\* the array of baseline bl in the dictionary numbered d
AcArray(d, bl) ==
    [shape |-> <<Ntimes, Nfreqs, Npols>>,
     v |-> [idx \in Idx(<<Ntimes, Nfreqs, Npols>>) |->
               d + 10 * bl[2] + 100 * idx[1] + 1000 * idx[2] + 10000 * idx[3]]]
AcDict(d) == [k \in {AcKey(bl) : bl \in AcBls} |-> AcArray(d, k.bl)]
\* np.ones_like of every array of a copy of data
OnesLike(dict) ==
    [k \in DOMAIN dict |->
        [shape |-> dict[k].shape, v |-> [idx \in Idx(dict[k].shape) |-> 1]]]
\* self.bls: the baseline vector of every key of model (antennas on a line)
BlsOf(dict) == [k \in DOMAIN dict |-> k.bl[2] - k.bl[1]]

MaxId(h) == CHOOSE n \in DOMAIN h : \A m \in DOMAIN h : m <= n
Alloc(h, obj) == [heap |-> h @@ ((MaxId(h) + 1) :> obj), ref |-> MaxId(h) + 1]

DeepCopy_Alias(h, ref) == [heap |-> h, ref |-> ref]
\* copy.deepcopy: a new dictionary with the same keys and equal arrays
DeepCopy(h, ref) == Alloc(h, h[ref])

\* row j of an array along an axis, the axis kept with length one
Take(a, axis, j) ==
    LET shape == [a.shape EXCEPT ![axis + 1] = 1]
    IN  [shape |-> shape,
         v |-> [idx \in Idx(shape) |-> a.v[[idx EXCEPT ![axis + 1] = j + 1]]]]

NewKey(k, prefix, j) == [bl |-> k.bl, tags |-> Append(k.tags, <<prefix, j>>)]
OldKey(nk) == [bl |-> nk.bl, tags |-> SubSeq(nk.tags, 1, Len(nk.tags) - 1)]
NewKeys(dict, prefix, axis) ==
    UNION {{NewKey(k, prefix, j) : j \in 0..(dict[k].shape[axis + 1] - 1)} :
              k \in DOMAIN dict}

\* abscal_funcs.unravel, in place: every row of every array along the axis
\* becomes a key of its own and the original key is removed; copy_dict,
\* when given, gets the value of the original key at every new key
unravel(h, ref, prefix, axis, copy_dict) ==
    LET dict == h[ref]
        NK == NewKeys(dict, prefix, axis)
        h1 == [h EXCEPT ![ref] =
                  [nk \in NK |-> Take(dict[OldKey(nk)], axis, nk.tags[Len(nk.tags)][2])]]
    IN  IF copy_dict.some
        THEN [h1 EXCEPT ![copy_dict.v] =
                 [k \in (DOMAIN h1[copy_dict.v]) \cup NK |->
                     IF k \in NK THEN h1[copy_dict.v][OldKey(k)]
                     ELSE h1[copy_dict.v][k]]]
        ELSE h1

\* the three unravel calls of one axis: data, model, wgts
UnravelAxis(h, on, m, d, w, prefix, axis, copy_dict) ==
    IF on
    THEN unravel(unravel(unravel(h, d, prefix, axis, None),
                         m, prefix, axis, copy_dict),
                 w, prefix, axis, None)
    ELSE h
UnravelAll(h, m, d, w, ut, uf, up, copy_dict) ==
    UnravelAxis(UnravelAxis(UnravelAxis(h, ut, m, d, w, "t", 0, copy_dict),
                            uf, m, d, w, "f", 1, copy_dict),
                up, m, d, w, "p", 2, copy_dict)

\* what a solver returns: one solution for every key of the model it got
Fit(h, m) == [keys |-> DOMAIN h[m]]

\* the object: the heap and the attributes the methods assign
Self == [heap |-> heap, gain_amp |-> gain_amp, gain_psi |-> gain_psi,
         gain_phi |-> gain_phi, delays |-> delays, gain_array |-> gain_array,
         exc |-> "ok"]

amp_lincal(s, ut, uf, up) ==
    LET m == DeepCopy(s.heap, ac_model)
        d == DeepCopy(m.heap, ac_data)
        w == DeepCopy(d.heap, ac_wgts)
        h == UnravelAll(w.heap, m.ref, d.ref, w.ref, ut, uf, up, None)
    IN  [s EXCEPT !.heap = h, !.gain_amp = Some(Fit(h, m.ref)), !.exc = "ok"]

phs_logcal(s, ut, uf, up, zero_psi) ==
    LET m == DeepCopy(s.heap, ac_model)
        d == DeepCopy(m.heap, ac_data)
        w == DeepCopy(d.heap, ac_wgts)
    IN  IF ~bls.some
        THEN [s EXCEPT !.heap = w.heap, !.exc = "AttributeError"]
        ELSE LET b == DeepCopy(w.heap, bls.v)
                 h == UnravelAll(b.heap, m.ref, d.ref, w.ref, ut, uf, up, Some(b.ref))
                 fit == [keys |-> DOMAIN h[m.ref], zero_psi |-> zero_psi]
             IN  [s EXCEPT !.heap = h, !.gain_psi = Some(fit),
                           !.gain_phi = Some(fit), !.exc = "ok"]

delay_lincal(s) ==
    LET m == DeepCopy(s.heap, ac_model)
        d == DeepCopy(m.heap, ac_data)
    IN  IF ~freqs.some
        THEN [s EXCEPT !.heap = d.heap, !.exc = "Exception"]
        ELSE [s EXCEPT !.heap = d.heap, !.delays = Some(Fit(d.heap, m.ref)),
                       !.exc = "ok"]

Factors_NoSlope(s) ==
    {f \in {"gain_amp", "gain_psi"} :
        \/ f = "gain_amp" /\ s.gain_amp.some
        \/ f = "gain_psi" /\ s.gain_psi.some}
\* the factors make_gains multiplies into the array of ones
Factors(s) ==
    {f \in {"gain_amp", "gain_psi", "gain_phi"} :
        \/ f = "gain_amp" /\ s.gain_amp.some
        \/ f = "gain_psi" /\ s.gain_psi.some
        \/ f = "gain_phi" /\ s.gain_phi.some}

\* self.ants, and (self.Nants, self.Ntimes, self.Nfreqs, self.Npols), which
\* the constructor took from the keys and the first array of model
AcAnts == UNION {{k.bl[1], k.bl[2]} : k \in DOMAIN heap0[ac_model]}
GainShape ==
    LET k0 == CHOOSE k \in DOMAIN heap0[ac_model] : TRUE
    IN  <<Cardinality(AcAnts)>> \o heap0[ac_model][k0].shape

make_gains_Compound(s, gains2dict) ==
    LET had(f) == IF s.gain_array.some /\ f \in s.gain_array.v.factors
                  THEN s.gain_array.v.times[f] ELSE 0
        fs == Factors(s) \cup (IF s.gain_array.some THEN s.gain_array.v.factors ELSE {})
    IN  [s EXCEPT !.gain_array =
                      Some([factors |-> fs, dict |-> gains2dict, shape |-> GainShape,
                            times |-> [f \in fs |-> had(f) + B2I(f \in Factors(s))]]),
                  !.exc = "ok"]
\* gain_array: an array of ones of GainShape times the factors, each
\* multiplied into it once, as one array or as a dictionary of the
\* antennas' arrays
make_gains(s, gains2dict) ==
    [s EXCEPT !.gain_array = Some([factors |-> Factors(s), dict |-> gains2dict,
                                   shape |-> GainShape,
                                   times |-> [f \in Factors(s) |-> 1]]),
              !.exc = "ok"]

run(s, up, uf, ut, zero_psi) ==
    LET a == amp_lincal(s, ut, uf, FALSE)
    IN  IF a.exc # "ok" THEN a ELSE phs_logcal(a, ut, uf, FALSE, zero_psi)

\* the method returns: the attributes are as it left them, and only the
\* dictionaries that are still referenced remain
Return(s) ==
    /\ heap' = Restrict(s.heap, DOMAIN heap)
    /\ gain_amp' = s.gain_amp /\ gain_psi' = s.gain_psi /\ gain_phi' = s.gain_phi
    /\ delays' = s.delays /\ gain_array' = s.gain_array /\ ac_exc' = s.exc
    /\ UNCHANGED <<heap0, ac_model, ac_data, ac_wgts, bls, freqs>>
    /\ UNCHANGED othersOfAC

\* AbsCal(model, data, wgts, antpos, freqs): wgts, antpos and freqs may
\* be None, and wgts is then a new dictionary of ones
InitAC ==
    /\ \E wgts_given \in BOOLEAN, antpos_given \in BOOLEAN, freqs_given \in BOOLEAN :
          LET h2 == (1 :> AcDict(1)) @@ (2 :> AcDict(2))
              h3 == h2 @@ (3 :> IF wgts_given THEN AcDict(3) ELSE OnesLike(h2[2]))
              h4 == IF antpos_given THEN h3 @@ (4 :> BlsOf(h3[1])) ELSE h3
          IN  /\ heap = h4 /\ heap0 = h4
              /\ ac_model = 1 /\ ac_data = 2 /\ ac_wgts = 3
              /\ bls = IF antpos_given THEN Some(4) ELSE None
              /\ freqs = IF freqs_given THEN Some(1) ELSE None
    /\ gain_amp = None /\ gain_psi = None /\ gain_phi = None /\ delays = None
    /\ gain_array = None /\ ac_exc = "ok"
    /\ InitOthersOfAC

AmpLincal == \E ut, uf, up \in BOOLEAN : Return(amp_lincal(Self, ut, uf, up))
PhsLogcal ==
    \E ut, uf, up, zero_psi \in BOOLEAN : Return(phs_logcal(Self, ut, uf, up, zero_psi))
DelayLincal == Return(delay_lincal(Self))
MakeGains == \E gains2dict \in BOOLEAN : Return(make_gains(Self, gains2dict))
Run == \E up, uf, ut, zero_psi \in BOOLEAN : Return(run(Self, up, uf, ut, zero_psi))

NextAC == AmpLincal \/ PhsLogcal \/ DelayLincal \/ MakeGains \/ Run

SpecAC == InitAC /\ [][NextAC]_vars

(***************************************************************************)
(* C10.  Caller data is never corrupted.                                   *)
(***************************************************************************)
SameKeysShapesValues(a, b) ==
    /\ DOMAIN a = DOMAIN b
    /\ \A k \in DOMAIN a : a[k].shape = b[k].shape /\ a[k].v = b[k].v

\* C10: after any sequence of amp_lincal, phs_logcal, delay_lincal, run and
\* make_gains calls, with any unravel flags, the model, data and wgts
\* dictionaries the object holds have the keys, the array shapes and the
\* values they had when the object was constructed.
C10_CallerDataKept ==
    \A ref \in {ac_model, ac_data, ac_wgts} :
        /\ ref \in DOMAIN heap
        /\ SameKeysShapesValues(heap[ref], heap0[ref])

AllTied(fit) == \A k \in fit.keys : Len(k.tags) = 3

\* every method has run, the solvers on dictionaries unravelled along all
\* three axes, and the gains were assembled
C10_Witness ==
    /\ gain_amp.some /\ AllTied(gain_amp.v)
    /\ gain_psi.some /\ AllTied(gain_psi.v)
    /\ delays.some
    /\ gain_array.some /\ gain_array.v.factors = {"gain_amp", "gain_psi", "gain_phi"}
    /\ ac_exc = "ok"

(***************************************************************************)
(* C11, C12.  What make_gains composes.                                    *)
(***************************************************************************)
\* the components the steps amp_lincal and phs_logcal have solved so far
SolvedByAmpPhs ==
    (IF gain_amp.some THEN {"gain_amp"} ELSE {})
      \cup (IF gain_psi.some /\ gain_phi.some THEN {"gain_psi", "gain_phi"} ELSE {})

\* C11: make_gains never raises, whatever steps were run before it; the
\* gain array it leaves has the shape (Nants, Ntimes, Nfreqs, Npols) and is
\* the array of ones times exactly the factors of the components that
\* amp_lincal and phs_logcal have solved, so all ones when neither has
\* run; phs_logcal solves gain_psi and gain_phi together.
C11_AbsentAreIdentity ==
    [][MakeGains =>
          /\ ac_exc' = "ok"
          /\ gain_array'.some
          /\ gain_array'.v.factors = SolvedByAmpPhs
          /\ gain_array'.v.shape = <<3, Ntimes, Nfreqs, Npols>>
          /\ gain_psi.some <=> gain_phi.some]_vars

\* make_gains has run after amp_lincal alone, phs_logcal having failed or
\* not run: the gain is the amplitude factor only
C11_Witness ==
    /\ gain_array.some /\ gain_array.v.factors = {"gain_amp"}
    /\ gain_amp.some /\ ~gain_psi.some /\ ~gain_phi.some

\* the components solved so far, the delays among them
SolvedSoFar == SolvedByAmpPhs \cup (IF delays.some THEN {"delays"} ELSE {})

\* C12: the set of components make_gains composes into the gain array is
\* the set of components solved so far, the delays of delay_lincal
\* included.
C12_DelaysComposed ==
    [][MakeGains => gain_array'.some /\ gain_array'.v.factors = SolvedSoFar]_vars

\* what the code does: a delay factor is never composed into the gain
DelaysNeverComposed ==
    gain_array.some => "delays" \notin gain_array.v.factors

(***************************************************************************)
(* firstcal.redundant_bl_cal_simple.  The function is modelled from the    *)
(* magnitude spectra _phss that np.fft.fft returns, one row per time       *)
(* sample or the one row of the time average, and from the slopes that     *)
(* fit_line returns; a delay is a fraction <<numerator, denominator>> in   *)
(* units of 1 / (N * (fqs[1] - fqs[0])).                                   *)
(***************************************************************************)
MaxChan == 5
MaxRows == 2

\* np.fft.fftfreq(N, d)[i] * N * d
FftFreq(N, i) == IF i < ((N - 1) \div 2) + 1 THEN i ELSE i - N

\* np.argmax: the first bin of the largest magnitude
ArgMax(row) ==
    CHOOSE b \in DOMAIN row :
        /\ \A c \in DOMAIN row : row[c] <= row[b]
        /\ \A c \in DOMAIN row : row[c] = row[b] => b <= c

Fold_Geq(b, N) == IF b >= N \div 2 THEN b - N ELSE b
\* mxs[mxs > _phss.shape[-1]/2] -= _phss.shape[-1], in Python 2
Fold(b, N) == IF b > N \div 2 THEN b - N ELSE b

\* Python's index into an axis of length N
InRange(k, N) == 0 - N <= k /\ k < N
PyIdx(k, N) == IF k < 0 THEN k + N ELSE k

\* the weighted mean of dlys over the bins mx - 1, mx, mx + 1
Centroid(row, mx, N) ==
    LET bins == {mx - 1, mx, mx + 1}
        w == [k \in bins |-> row[PyIdx(k, N)]]
    IN  <<SumF(bins, [k \in bins |-> w[k] * FftFreq(N, PyIdx(k, N))]),
          SumF(bins, w)>>

\* numpy's a + b of arrays of a single axis: the lengths must be equal or
\* one of them 1, and the result has the other length
CanBroadcast(m, n) == m = n \/ m = 1 \/ n = 1
BroadcastLen(m, n) == IF m = 1 THEN n ELSE m
\* taus + dts: every slope added to its delay
NpAddDelays(taus, dts) ==
    IF ~CanBroadcast(Len(taus), Len(dts)) THEN [exc |-> "ValueError"]
    ELSE [exc |-> "ok",
          v |-> [n \in 1..BroadcastLen(Len(taus), Len(dts)) |->
                    LET tau == taus[IF Len(taus) = 1 THEN 1 ELSE n]
                        dt == dts[IF Len(dts) = 1 THEN 1 ELSE n]
                    IN  <<tau[1] + dt * tau[2], tau[2]>>]]

\* x holds N, the spectra and slopes of the time samples (rows, dts) and
\* those of their average (avg, avg_dt)
redundant_bl_cal_simple(x, finetune, average) ==
    LET N == x.N
        phss == IF average THEN <<x.avg>> ELSE x.rows
        fits == IF average THEN <<x.avg_dt>> ELSE x.dts
        mxs == [r \in 1..Len(phss) |-> Fold(ArgMax(phss[r]), N)]
        taus == [r \in 1..Len(phss) |-> Centroid(phss[r], mxs[r], N)]
        dts == IF finetune THEN fits ELSE <<>>
        sum == NpAddDelays(taus, dts)
    IN  IF \E r \in 1..Len(phss) : ~InRange(mxs[r] - 1, N) \/ ~InRange(mxs[r] + 1, N)
        THEN [exc |-> "IndexError", mxs |-> mxs, ret |-> None]
        ELSE [exc |-> sum.exc, mxs |-> mxs,
              ret |-> IF sum.exc = "ok" THEN Some(sum.v) ELSE None]

(***************************************************************************)
(* SpecRB: redundant_bl_cal_simple is called on data of N channels whose   *)
(* spectra peak at any bin, every second one leaking into the next bin.    *)
(***************************************************************************)
Spectrum(N, b, leak) ==
    [k \in 0..(N - 1) |-> IF k = b THEN 2 ELSE IF leak /\ k = (b + 1) % N THEN 1 ELSE 0]

RbInputs ==
    UNION {UNION {{[N |-> N,
                    rows |-> [r \in 1..T |-> Spectrum(N, peaks[r], r % 2 = 0)],
                    dts |-> [r \in 1..T |-> r],
                    avg |-> Spectrum(N, peaks[1], leak),
                    avg_dt |-> 7] :
                      peaks \in [1..T -> 0..(N - 1)], leak \in BOOLEAN} :
                  T \in 1..MaxRows} :
              N \in 2..MaxChan}

InitRB ==
    /\ rb_in \in {Some(x) : x \in RbInputs}
    /\ rb_mxs = None /\ rb_ret = None /\ rb_exc = "ok"
    /\ InitOthersOfRB

RedundantBlCalSimple ==
    \E finetune, average \in BOOLEAN :
        /\ rb_mxs = None
        /\ LET r == redundant_bl_cal_simple(rb_in.v, finetune, average)
           IN  /\ rb_mxs' = Some([mxs |-> r.mxs, finetune |-> finetune,
                                  average |-> average])
               /\ rb_ret' = r.ret
               /\ rb_exc' = r.exc
        /\ UNCHANGED rb_in
        /\ UNCHANGED othersOfRB

NextRB == RedundantBlCalSimple

SpecRB == InitRB /\ [][NextRB]_vars

(***************************************************************************)
(* C16, C17.  Fine tuning and the folding of the peak bin.                 *)
(***************************************************************************)
\* the spectra the call worked on, and its coarse estimates
PhssOf(x, average) == IF average THEN <<x.avg>> ELSE x.rows
CoarseOf(x, average) ==
    [r \in 1..Len(PhssOf(x, average)) |->
        Centroid(PhssOf(x, average)[r],
                 Fold(ArgMax(PhssOf(x, average)[r]), x.N), x.N)]

\* C16: with finetune=False the function returns the coarse estimates
\* alone, one per time sample, or a single one when average=True; with
\* finetune=True it returns, for every time sample, the coarse estimate
\* plus the slope of the linear fit.
C16_FinetuneOptional ==
    (rb_mxs.some /\ rb_exc # "IndexError") =>
        LET x == rb_in.v
            coarse == CoarseOf(x, rb_mxs.v.average)
            fits == IF rb_mxs.v.average THEN <<x.avg_dt>> ELSE x.dts
        IN  /\ rb_exc = "ok" /\ rb_ret.some
            /\ Len(rb_ret.v) = IF rb_mxs.v.average THEN 1 ELSE Len(x.rows)
            /\ ~rb_mxs.v.finetune => rb_ret.v = coarse
            /\ rb_mxs.v.finetune =>
                  \A r \in 1..Len(coarse) :
                      rb_ret.v[r] = <<coarse[r][1] + fits[r] * coarse[r][2], coarse[r][2]>>

\* what the code does with finetune=False: it returns an empty array when
\* there is one row, and raises ValueError when there are more
FinetuneOffReturnsNothing ==
    (rb_mxs.some /\ rb_exc # "IndexError" /\ ~rb_mxs.v.finetune) =>
        IF Len(PhssOf(rb_in.v, rb_mxs.v.average)) = 1
        THEN rb_exc = "ok" /\ rb_ret = Some(<<>>)
        ELSE rb_exc = "ValueError"

\* with finetune=True every row gets its coarse estimate plus its slope
FinetuneOnAddsSlope ==
    (rb_mxs.some /\ rb_exc # "IndexError" /\ rb_mxs.v.finetune) =>
        LET x == rb_in.v
            coarse == CoarseOf(x, rb_mxs.v.average)
            fits == IF rb_mxs.v.average THEN <<x.avg_dt>> ELSE x.dts
        IN  /\ rb_exc = "ok" /\ rb_ret.some
            /\ Len(rb_ret.v) = Len(coarse)
            /\ \A r \in 1..Len(coarse) :
                  rb_ret.v[r] = <<coarse[r][1] + fits[r] * coarse[r][2], coarse[r][2]>>

\* C17: the folded bin of every row is the peak bin b itself when
\* b <= floor(N/2) and b - N when b > floor(N/2), so it is congruent to b
\* modulo N and lies in -N/2 < k <= N/2.
C17_Folding ==
    rb_mxs.some =>
        LET N == rb_in.v.N
            phss == PhssOf(rb_in.v, rb_mxs.v.average)
        IN  /\ Len(rb_mxs.v.mxs) = Len(phss)
            /\ \A r \in 1..Len(phss) :
                  LET b == ArgMax(phss[r])
                      k == rb_mxs.v.mxs[r]
                  IN  /\ phss[r][b] = 2
                      /\ b > N \div 2 => k = b - N
                      /\ b <= N \div 2 => k = b
                      /\ (k - b) % N = 0
                      /\ 0 - N < 2 * k /\ 2 * k <= N

\* a call folded a peak in the upper half of the channels and kept a peak
\* at floor(N/2)
C17_Witness ==
    /\ rb_mxs.some /\ rb_exc = "ok" /\ Len(rb_mxs.v.mxs) = 2
    /\ rb_in.v.N \in {4, 5}
    /\ rb_mxs.v.mxs[1] < 0
    /\ rb_mxs.v.mxs[2] = rb_in.v.N \div 2

(***************************************************************************)
(* firstcal.FirstCalRedundantInfo.  A baseline is a pair of antennas, a    *)
(* redundancy description a sequence of groups, each a sequence of         *)
(* baselines; a baseline pair is a pair of baselines.                      *)
(***************************************************************************)
RECURSIVE FlattenSeq(_)
FlattenSeq(ss) == IF ss = <<>> THEN <<>> ELSE Head(ss) \o FlattenSeq(Tail(ss))

SeqRange(s) == {s[n] : n \in 1..Len(s)}

\* the members of a set of numbers in ascending order
RECURSIVE Ascending(_)
Ascending(S) ==
    IF S = {} THEN <<>>
    ELSE LET least == CHOOSE x \in S : \A y \in S : x <= y
         IN  <<least>> \o Ascending(S \ {least})

\* omnical's init_same: subsetant holds the antennas of reds, and bl_order()
\* lists the baselines of reds group after group
Subsetant(r) ==
    Ascending(UNION {{bl[1], bl[2]} : bl \in SeqRange(FlattenSeq(r))})
bl_order(r) == FlattenSeq(r)
\* omnical's ant_index: the position of an antenna in subsetant
ant_index(sub, a) == CHOOSE n \in 0..(Len(sub) - 1) : sub[n + 1] = a

\* [(bl1, bl2) for i, bl1 in enumerate(ublgp) for bl2 in ublgp[i+1:]]
RECURSIVE PairsFrom(_, _)
PairsFrom(ublgp, i) ==
    IF i > Len(ublgp) THEN <<>>
    ELSE [j \in 1..(Len(ublgp) - i) |-> <<ublgp[i], ublgp[i + j]>>]
            \o PairsFrom(ublgp, i + 1)
BlPairs_AcrossGroups(r) == PairsFrom(FlattenSeq(r), 1)
BlPairs(r) == FlattenSeq([g \in 1..Len(r) |-> PairsFrom(r[g], 1)])

\* map(self.ant_index, np.array(bp).flatten())
AntInd(sub, bp) ==
    <<ant_index(sub, bp[1][1]), ant_index(sub, bp[1][2]),
      ant_index(sub, bp[2][1]), ant_index(sub, bp[2][2])>>

\* a memoized lookup: the table is built from what the info holds now when
\* the attribute does not exist yet, and for bare excepts also when the
\* key is not in it; KeyError when the key is not in the table it built
Memo(table, key, build, bare) ==
    LET hit == table.some /\ key \in DOMAIN table.v
        rebuild == ~table.some \/ (bare /\ ~hit)
        t == IF rebuild THEN build ELSE table.v
    IN  [table |-> Some(t),
         exc |-> IF key \in DOMAIN t THEN "ok" ELSE "KeyError",
         v |-> IF key \in DOMAIN t THEN t[key] ELSE 0]

\* the table of the positions of the elements of a sequence, the last
\* position of an element that occurs twice
IndexTable(seq) ==
    [x \in SeqRange(seq) |->
        (CHOOSE n \in 1..Len(seq) :
            seq[n] = x /\ \A m \in 1..Len(seq) : seq[m] = x => m <= n) - 1]

bl_index(s, bl) == Memo(s.bl2ind, bl, IndexTable(bl_order(s.reds.v)), FALSE)
blpair_index(s, bp) == Memo(s.blpair2ind, bp, IndexTable(s.bl_pairs), TRUE)
blpair2antind(s, bp) ==
    Memo(s.blpair2antind, bp,
         [p \in SeqRange(s.bl_pairs) |-> AntInd(s.subsetant, p)], TRUE)

RowAdd_Assign(row, c, x) == [row EXCEPT ![c] = x]
\* A[n, c] += x
RowAdd(row, c, x) == [row EXCEPT ![c] = @ + x]

\* the rows of A from row n on, the memo table threaded through the loop
RECURSIVE FillA(_, _, _)
FillA(s, n, rows) ==
    IF n > Len(s.bl_pairs) THEN [s EXCEPT !.A = rows, !.exc = "ok"]
    ELSE LET r == blpair2antind(s, s.bl_pairs[n])
             s1 == [s EXCEPT !.blpair2antind = r.table]
             ncols == Len(s.subsetant)
             zeros == [c \in 0..(ncols - 1) |-> 0]
         IN  IF r.exc # "ok" THEN [s1 EXCEPT !.exc = r.exc]
             ELSE IF \E c \in SeqRange(r.v) : c >= ncols
             THEN [s1 EXCEPT !.exc = "IndexError"]
             ELSE FillA(s1, n + 1,
                        Append(rows,
                               RowAdd(RowAdd(RowAdd(RowAdd(zeros, r.v[1], 1),
                                                    r.v[2], 0 - 1),
                                             r.v[3], 0 - 1),
                                      r.v[4], 1)))

init_from_reds(s, r) ==
    FillA([s EXCEPT !.reds = Some(r), !.subsetant = Subsetant(r),
                    !.bl_pairs = BlPairs(r)],
          1, <<>>)

\* the info object as a record, and the assignment of a record to it
Info == [reds |-> reds, subsetant |-> subsetant, bl_pairs |-> bl_pairs,
         A |-> fc_A, bl2ind |-> bl2ind, blpair2ind |-> blpair2ind,
         blpair2antind |-> blpair2antind_memo, exc |-> "ok"]
SetInfo(s) ==
    /\ reds' = s.reds /\ subsetant' = s.subsetant /\ bl_pairs' = s.bl_pairs
    /\ fc_A' = s.A /\ bl2ind' = s.bl2ind /\ blpair2ind' = s.blpair2ind
    /\ blpair2antind_memo' = s.blpair2antind

(***************************************************************************)
(* The redundancy descriptions: antennas on a line, groups of one          *)
(* baseline, baselines that share one or both antennas, a baseline listed  *)
(* twice.                                                                  *)
(***************************************************************************)
RedsSet ==
    {<< <<<<0, 1>>, <<1, 2>>, <<2, 3>>>>, <<<<0, 2>>, <<1, 3>>>>, <<<<0, 3>>>> >>,
     << <<<<0, 1>>, <<1, 2>>>> >>,
     << <<<<1, 2>>, <<2, 3>>>>, <<<<1, 3>>>> >>,
     << <<<<0, 1>>>>, <<<<0, 2>>>> >>,
     << <<<<0, 1>>, <<1, 0>>>> >>,
     << <<<<0, 1>>, <<2, 3>>>> >>,
     << <<<<0, 1>>, <<0, 1>>, <<1, 2>>>> >>}

(***************************************************************************)
(* SpecFC: an info object is initialised from a redundancy description,    *)
(* once, and its lookups and the FirstCal that holds it are used.          *)
(***************************************************************************)
InitFC ==
    /\ InitFCIdle
    /\ InitOthersOfFC

InitFromReds ==
    \E r \in RedsSet :
        /\ ~reds.some
        /\ LET s == init_from_reds(Info, r)
           IN  SetInfo(s) /\ fc_exc' = s.exc
        /\ fc_ret' = None
        /\ fc_call' = [op |-> "init_from_reds", finetune |-> FALSE, average |-> FALSE]
        /\ UNCHANGED <<fc_data, fc_wgts, fc_M, fcal_A, xhat>>
        /\ UNCHANGED othersOfFC

\* a lookup returned: its value, its exception and the table it left
Looked(r) ==
    /\ fc_ret' = IF r.exc = "ok" THEN Some(r.v) ELSE None
    /\ fc_call' = [op |-> "lookup", finetune |-> FALSE, average |-> FALSE]
    /\ fc_exc' = r.exc

BlIndex ==
    /\ reds.some
    /\ \E bl \in SeqRange(bl_order(reds.v)) :
        /\ LET r == bl_index(Info, bl)
           IN  Looked(r) /\ bl2ind' = r.table
        /\ UNCHANGED <<reds, subsetant, bl_pairs, fc_A, blpair2ind, blpair2antind_memo,
                       fc_data, fc_wgts, fc_M, fcal_A, xhat>>
        /\ UNCHANGED othersOfFC

BlpairIndex ==
    /\ reds.some
    /\ \E bp \in SeqRange(bl_pairs) :
        /\ LET r == blpair_index(Info, bp)
           IN  Looked(r) /\ blpair2ind' = r.table
        /\ UNCHANGED <<reds, subsetant, bl_pairs, fc_A, bl2ind, blpair2antind_memo,
                       fc_data, fc_wgts, fc_M, fcal_A, xhat>>
        /\ UNCHANGED othersOfFC

Blpair2antind ==
    /\ reds.some
    /\ \E bp \in SeqRange(bl_pairs) :
        /\ LET r == blpair2antind(Info, bp)
           IN  Looked(r) /\ blpair2antind_memo' = r.table
        /\ UNCHANGED <<reds, subsetant, bl_pairs, fc_A, bl2ind, blpair2ind,
                       fc_data, fc_wgts, fc_M, fcal_A, xhat>>
        /\ UNCHANGED othersOfFC

(***************************************************************************)
(* FirstCal.  A visibility waterfall is modelled by the delay of its       *)
(* phase slope at every time sample, so that conjugation negates it and    *)
(* d2 * conj(d1) has the difference of the delays; the weights are ones.   *)
(* redundant_bl_cal_simple is modelled here by the shape of what it        *)
(* returns and by the delay it measures on such data.                      *)
(***************************************************************************)
AntDelay(a) == a * a
FcData(r, T) ==
    [bl \in SeqRange(bl_order(r)) |-> [t \in 1..T |-> AntDelay(bl[1]) - AntDelay(bl[2])]]
FcWgts(r, T) == [bl \in SeqRange(bl_order(r)) |-> [t \in 1..T |-> 1]]

\* FirstCalRedundantInfo.order_data: the waterfalls in the order of
\* bl_order(), the conjugate of the reversed baseline for a missing key
order_data(s, dd) ==
    LET order == bl_order(s.reds.v)
        rev(bl) == <<bl[2], bl[1]>>
    IN  IF \E bl \in SeqRange(order) : bl \notin DOMAIN dd /\ rev(bl) \notin DOMAIN dd
        THEN [exc |-> "KeyError", v |-> <<>>]
        ELSE [exc |-> "ok",
              v |-> [n \in 1..Len(order) |->
                        IF order[n] \in DOMAIN dd THEN dd[order[n]]
                        ELSE [t \in DOMAIN dd[rev(order[n])] |->
                                 0 - dd[rev(order[n])][t]]]]

\* the delays redundant_bl_cal_simple returns for d1, d2: one per row it
\* worked on, and none of them left by taus + dts when dts is empty
PairDelay(d1, d2, finetune, average) ==
    LET rows == IF average THEN 1 ELSE Len(d1)
        ndts == IF finetune THEN rows ELSE 0
    IN  IF ~CanBroadcast(rows, ndts) THEN [exc |-> "ValueError", v |-> <<>>]
        ELSE [exc |-> "ok",
              v |-> [t \in 1..BroadcastLen(rows, ndts) |-> d2[t] - d1[t]]]

\* the loop of data_to_delays from pair n on
RECURSIVE DelaysLoop(_, _, _, _, _, _)
DelaysLoop(s, dd, n, out, finetune, average) ==
    IF n > Len(s.bl_pairs) THEN [s |-> s, exc |-> "ok", v |-> out]
    ELSE LET bp == s.bl_pairs[n]
             i1 == bl_index(s, bp[1])
             s1 == [s EXCEPT !.bl2ind = i1.table]
             i2 == bl_index(s1, bp[2])
             delay == PairDelay(dd[i1.v + 1], dd[i2.v + 1], finetune, average)
         IN  IF i1.exc # "ok" THEN [s |-> s1, exc |-> i1.exc, v |-> out]
             ELSE IF i2.exc # "ok" THEN [s |-> s1, exc |-> i2.exc, v |-> out]
             ELSE IF delay.exc # "ok" THEN [s |-> s1, exc |-> delay.exc, v |-> out]
             ELSE DelaysLoop(s1, dd, n + 1, Put(out, bp, delay.v), finetune, average)

data_to_delays(s, fdata, fwgts, finetune, average) ==
    LET dd == order_data(s, fdata)
        ww == order_data(s, fwgts)
    IN  IF dd.exc # "ok" \/ ww.exc # "ok"
        THEN [s |-> s, exc |-> "KeyError", v |-> EmptyDict]
        ELSE DelaysLoop(s, dd.v, 1, EmptyDict, finetune, average)

\* M[self.info.blpair_index(pair), :] = blpair2delay[pair], for the pairs
\* of todo
RECURSIVE FillM(_, _, _, _)
FillM(s, b2d, todo, M) ==
    IF todo = {} THEN [s |-> s, exc |-> "ok", v |-> M]
    ELSE LET pair == CHOOSE p \in todo : TRUE
             ix == blpair_index(s, pair)
             s1 == [s EXCEPT !.blpair2ind = ix.table]
         IN  IF ix.exc # "ok" THEN [s |-> s1, exc |-> ix.exc, v |-> M]
             ELSE FillM(s1, b2d, todo \ {pair}, [M EXCEPT ![ix.v + 1] = b2d[pair]])

\* the element of a set of one element
The(S) == CHOOSE x \in S : TRUE

\* get_M once data_to_delays has returned r
MFromDelays(r, npairs) ==
    LET first == CHOOSE p \in DOMAIN r.v : TRUE
        sz == Len(r.v[first])
    IN  IF r.exc # "ok" THEN [s |-> r.s, exc |-> r.exc, v |-> <<>>]
        ELSE IF DOMAIN r.v = {} THEN [s |-> r.s, exc |-> "IndexError", v |-> <<>>]
        ELSE FillM(r.s, r.v, DOMAIN r.v, [n \in 1..npairs |-> [t \in 1..sz |-> 0]])

get_M(s, fdata, fwgts, finetune, average) ==
    The({MFromDelays(r, Len(s.bl_pairs)) :
            r \in {data_to_delays(s, fdata, fwgts, finetune, average)}})

\* A.T * A
Gram(A, ncols) ==
    [c \in 0..(ncols - 1) |->
        [e \in 0..(ncols - 1) |->
            SumF(1..Len(A), [n \in 1..Len(A) |-> A[n][c] * A[n][e]])]]
\* a vector of zeros and ones that the matrix sends to zero
Singular(G) ==
    \E x \in [DOMAIN G -> {0, 1}] :
        /\ \E c \in DOMAIN G : x[c] = 1
        /\ \A c \in DOMAIN G : SumF(DOMAIN G, [e \in DOMAIN G |-> G[c][e] * x[e]]) = 0

Pinv_Solve(G) == IF Singular(G) THEN "LinAlgError" ELSE "ok"
\* np.linalg.pinv: defined for a singular matrix as well
Pinv(G) == "ok"

\* FirstCal.run once get_M has returned m; the entries of xhat are not
\* computed: a row of xhat is its index and its length
Solve(A, subs, m) ==
    LET nants == Len(subs)
        sz == IF m.v = <<>> THEN 0 ELSE Len(m.v[1])
        inv == Pinv(Gram(A, nants))
        rows == [c \in 1..nants |-> [row |-> c - 1, len |-> sz]]
    IN  IF m.exc # "ok"
        THEN [s |-> m.s, exc |-> m.exc, M |-> None, A |-> None, xhat |-> None, ret |-> None]
        ELSE IF inv # "ok"
        THEN [s |-> m.s, exc |-> inv, M |-> Some(m.v), A |-> Some(A),
              xhat |-> None, ret |-> None]
        ELSE [s |-> m.s, exc |-> "ok", M |-> Some(m.v), A |-> Some(A),
              xhat |-> Some(rows),
              ret |-> Some([a \in SeqRange(subs) |->
                              rows[CHOOSE c \in 1..nants :
                                     subs[c] = a
                                     /\ \A e \in 1..nants : subs[e] = a => e <= c]])]

RunFirstCal(s, fdata, fwgts, finetune, average) ==
    The({Solve(s.A, s.subsetant, m) :
            m \in {get_M(s, fdata, fwgts, finetune, average)}})

\* FirstCal(data, wgts, fqs, info)
NewFirstCal ==
    /\ reds.some /\ fc_exc = "ok" /\ DOMAIN fc_data = {}
    /\ \E T \in 1..MaxRows :
          /\ fc_data' = FcData(reds.v, T)
          /\ fc_wgts' = FcWgts(reds.v, T)
    /\ fc_call' = [op |-> "FirstCal", finetune |-> FALSE, average |-> FALSE]
    /\ fc_ret' = None
    /\ UNCHANGED <<reds, subsetant, bl_pairs, fc_A, bl2ind, blpair2ind,
                   blpair2antind_memo, fc_M, fcal_A, xhat, fc_exc>>
    /\ UNCHANGED othersOfFC

DataToDelays ==
    /\ DOMAIN fc_data # {}
    /\ \E finetune, average \in BOOLEAN :
          \E r \in {data_to_delays(Info, fc_data, fc_wgts, finetune, average)} :
              /\ SetInfo(r.s)
              /\ fc_exc' = r.exc
              /\ fc_ret' = IF r.exc = "ok" THEN Some(r.v) ELSE None
              /\ fc_call' = [op |-> "data_to_delays", finetune |-> finetune,
                             average |-> average]
    /\ UNCHANGED <<fc_data, fc_wgts, fc_M, fcal_A, xhat>>
    /\ UNCHANGED othersOfFC

GetM ==
    /\ DOMAIN fc_data # {}
    /\ \E finetune, average \in BOOLEAN :
          \E r \in {get_M(Info, fc_data, fc_wgts, finetune, average)} :
              /\ SetInfo(r.s)
              /\ fc_exc' = r.exc
              /\ fc_ret' = IF r.exc = "ok" THEN Some(r.v) ELSE None
              /\ fc_call' = [op |-> "get_M", finetune |-> finetune,
                             average |-> average]
    /\ UNCHANGED <<fc_data, fc_wgts, fc_M, fcal_A, xhat>>
    /\ UNCHANGED othersOfFC

RunFC ==
    /\ DOMAIN fc_data # {}
    /\ \E finetune, average \in BOOLEAN :
          \E r \in {RunFirstCal(Info, fc_data, fc_wgts, finetune, average)} :
              /\ SetInfo(r.s)
              /\ fc_exc' = r.exc
              /\ fc_ret' = r.ret
              /\ fc_M' = IF r.M.some THEN r.M ELSE fc_M
              /\ fcal_A' = IF r.A.some THEN r.A ELSE fcal_A
              /\ xhat' = IF r.xhat.some THEN r.xhat ELSE xhat
              /\ fc_call' = [op |-> "run", finetune |-> finetune,
                             average |-> average]
    /\ UNCHANGED <<fc_data, fc_wgts>>
    /\ UNCHANGED othersOfFC

NextFC ==
    \/ InitFromReds \/ BlIndex \/ BlpairIndex \/ Blpair2antind
    \/ NewFirstCal \/ DataToDelays \/ GetM \/ RunFC

SpecFC == InitFC /\ [][NextFC]_vars

(***************************************************************************)
(* C13, C14.  The baseline pairs and the rows of A.                        *)
(***************************************************************************)
\* the pairs of positions i < j of group g, as (group, i, j)
PairPositions(r) ==
    {pos \in UNION {{<<g, i, j>> : i \in 1..Len(r[g]), j \in 1..Len(r[g])} :
                      g \in 1..Len(r)} : pos[2] < pos[3]}

\* C13: once init_from_reds has returned, bl_pairs lists, without
\* repetition of a position pair, exactly the pairs (group[i], group[j]),
\* i < j, of positions within one group, n(n-1)/2 of them for a group of n
\* baselines and so none for a group of one; a description whose groups
\* all have fewer than two baselines raises nothing; A has one row per
\* pair and one column per antenna of subsetant.
C13_PairFormation ==
    reds.some =>
        /\ Len(bl_pairs) = Cardinality(PairPositions(reds.v))
        /\ \A pos \in PairPositions(reds.v) :
              \E n \in 1..Len(bl_pairs) :
                  bl_pairs[n] = <<reds.v[pos[1]][pos[2]], reds.v[pos[1]][pos[3]]>>
        /\ BlPairs(reds.v) = bl_pairs
        /\ \A g \in 1..Len(reds.v) :
              Len(PairsFrom(reds.v[g], 1)) * 2 = Len(reds.v[g]) * (Len(reds.v[g]) - 1)
        /\ (\A g \in 1..Len(reds.v) : Len(reds.v[g]) < 2) => bl_pairs = <<>>
        /\ fc_call.op = "init_from_reds" => fc_exc = "ok"
        /\ Len(fc_A) = Len(bl_pairs)
        /\ \A n \in 1..Len(fc_A) : DOMAIN fc_A[n] = 0..(Len(subsetant) - 1)
        /\ SeqRange(subsetant) =
              UNION {{bl[1], bl[2]} : bl \in SeqRange(FlattenSeq(reds.v))}
        /\ Cardinality(SeqRange(subsetant)) = Len(subsetant)

\* an info was initialised from groups of three, two and one baselines
C13_Witness ==
    /\ reds.some /\ fc_call.op = "init_from_reds" /\ fc_exc = "ok"
    /\ \E g1, g2, g3 \in 1..Len(reds.v) :
          Len(reds.v[g1]) = 3 /\ Len(reds.v[g2]) = 2 /\ Len(reds.v[g3]) = 1
    /\ Len(bl_pairs) = 4 /\ Len(fc_A) = 4

\* the delay of antenna a under the assignment tau of delays to columns
TauOf(tau, a) == tau[ant_index(subsetant, a)]
RowDot(row, tau) == SumF(DOMAIN row, [c \in DOMAIN row |-> row[c] * tau[c]])
Taus == [0..(Len(subsetant) - 1) -> {0, 1, 3}]

\* C14: for the pair (bl1 = (i,j), bl2 = (k,l)) at row n and every
\* assignment tau of delays to the antennas, row n of A times tau is
\* (tau_i - tau_j) - (tau_k - tau_l), also when the baselines share antennas.
C14_DesignRows ==
    reds.some =>
        \A n \in 1..Len(bl_pairs) : \A tau \in Taus :
            RowDot(fc_A[n], tau) =
                (TauOf(tau, bl_pairs[n][1][1]) - TauOf(tau, bl_pairs[n][1][2]))
                  - (TauOf(tau, bl_pairs[n][2][1]) - TauOf(tau, bl_pairs[n][2][2]))

\* A has a row of a pair that shares one antenna and a row of a pair that
\* shares both
C14_Witness ==
    /\ reds.some /\ Len(fc_A) > 0
    /\ \E n \in 1..Len(bl_pairs) :
          /\ bl_pairs[n][1][2] = bl_pairs[n][2][1]
          /\ \E c \in DOMAIN fc_A[n] : fc_A[n][c] = 0 - 2

(***************************************************************************)
(* C15.  The overall-delay degeneracy and the solve of FirstCal.run.       *)
(***************************************************************************)
RowSum(row) == SumF(DOMAIN row, row)
\* the number of time samples of the FirstCal's data
FcTimes == Len(fc_data[CHOOSE bl \in DOMAIN fc_data : TRUE])

\* C15: every row of A sums to zero, so A times tau is A times tau plus a
\* constant, and A^T A is singular, for every redundancy description; a
\* call of run never raises on the singular system: it raises only out of
\* get_M, before the solve (IndexError when there is no baseline pair,
\* ValueError from redundant_bl_cal_simple with finetune=False), and
\* otherwise returns a dictionary with exactly one entry per antenna of
\* subsetant, the row of xhat at that antenna's index.
C15_OverallDelayDegeneracy ==
    reds.some =>
        /\ \A n \in 1..Len(fc_A) : RowSum(fc_A[n]) = 0
        /\ \A n \in 1..Len(fc_A) : \A tau \in Taus : \A c \in {1, 2} :
              RowDot(fc_A[n], [k \in DOMAIN tau |-> tau[k] + c]) = RowDot(fc_A[n], tau)
        /\ Singular(Gram(fc_A, Len(subsetant)))
        /\ fc_call.op = "run" =>
              /\ fc_exc \in {"ok", "IndexError", "ValueError"}
              /\ fc_exc = "IndexError" <=> bl_pairs = <<>>
              /\ fc_exc = "ValueError" <=>
                    (bl_pairs # <<>> /\ ~fc_call.finetune /\ ~fc_call.average
                       /\ FcTimes > 1)
              /\ fc_exc = "ok" =>
                    /\ fc_ret.some /\ xhat.some /\ fc_M.some
                    /\ fcal_A = Some(fc_A)
                    /\ DOMAIN fc_ret.v = SeqRange(subsetant)
                    /\ Cardinality(DOMAIN fc_ret.v) = Len(subsetant)
                    /\ \A a \in DOMAIN fc_ret.v :
                          fc_ret.v[a].row = ant_index(subsetant, a)

\* run returned the delays of four antennas from a singular system of four
\* baseline pairs
C15_Witness ==
    /\ reds.some /\ fc_call.op = "run" /\ fc_exc = "ok" /\ fc_ret.some
    /\ Len(subsetant) = 4 /\ Len(fc_A) = 4
    /\ Singular(Gram(fc_A, 4))
    /\ Cardinality(DOMAIN fc_ret.v) = 4

(***************************************************************************)
(* SpecPool: the iterations of the loop of FirstCal.data_to_delays (lines  *)
(* 215-223) run on a pool of workers, called without keyword arguments.    *)
(* An iteration calls bl_index for bl1, bl1, bl2, bl2 and stores its       *)
(* delay; bl_index is a read of self._bl2ind and, on AttributeError, its   *)
(* creation, one store per baseline of bl_order() and a read.  The info    *)
(* was initialised before, and its _bl2ind exists if bl_index was called   *)
(* before.                                                                 *)
(***************************************************************************)
NWorkers == 2

BlankInfo ==
    [reds |-> None, subsetant |-> <<>>, bl_pairs |-> <<>>, A |-> <<>>,
     bl2ind |-> None, blpair2ind |-> None, blpair2antind |-> None, exc |-> "ok"]

PoolReds ==
    {<< <<<<0, 1>>, <<1, 2>>, <<2, 3>>>> >>,
     << <<<<0, 1>>, <<1, 2>>>> >>,
     << <<<<0, 1>>, <<1, 2>>>>, <<<<0, 2>>, <<1, 3>>>> >>}

IdleWorker == [n |-> 0, call |-> 0, pc |-> "idle", k |-> 0, ix |-> <<>>]

InitPool ==
    /\ \E r \in PoolReds, called \in BOOLEAN :
          LET s == init_from_reds(BlankInfo, r)
          IN  /\ reds = s.reds /\ subsetant = s.subsetant /\ bl_pairs = s.bl_pairs
              /\ fc_A = s.A /\ blpair2ind = None
              /\ blpair2antind_memo = s.blpair2antind
              /\ bl2ind = IF called THEN bl_index(s, r[1][1]).table ELSE None
              /\ fc_data = FcData(r, 1) /\ fc_wgts = FcWgts(r, 1)
    /\ fc_M = None /\ fcal_A = None /\ xhat = None
    /\ fc_call = [op |-> "data_to_delays", finetune |-> TRUE, average |-> FALSE]
    /\ fc_ret = None /\ fc_exc = "ok"
    /\ dd_workers = [w \in 1..NWorkers |-> IdleWorker]
    /\ dd_next = 1 /\ blpair2delay = EmptyDict
    /\ dd_failed = {} /\ dd_writers = {} /\ dd_readers = {} /\ dd_slots = {}
    /\ InitOthersOfPool

\* what the pool leaves alone
PoolFrame ==
    /\ UNCHANGED <<reds, subsetant, bl_pairs, fc_A, blpair2ind, blpair2antind_memo,
                   fc_data, fc_wgts, fc_M, fcal_A, xhat, fc_call, fc_ret, fc_exc>>
    /\ UNCHANGED othersOfPool

\* the baseline of the call-th bl_index call of iteration n
CallBl(n, call) == bl_pairs[n][IF call <= 2 THEN 1 ELSE 2]

\* bl_index returned v to the worker
Got(wk, v) ==
    [wk EXCEPT !.ix = Append(@, v), !.k = 0,
               !.call = IF wk.call < 4 THEN wk.call + 1 ELSE wk.call,
               !.pc = IF wk.call < 4 THEN "try" ELSE "write"]

\* a worker takes the next iteration of the loop
TakePair(w) ==
    /\ dd_workers[w].pc = "idle" /\ dd_next <= Len(bl_pairs)
    /\ dd_workers' = [dd_workers EXCEPT ![w] =
                         [n |-> dd_next, call |-> 1, pc |-> "try", k |-> 0, ix |-> <<>>]]
    /\ dd_next' = dd_next + 1
    /\ UNCHANGED <<bl2ind, blpair2delay, dd_failed, dd_writers, dd_readers, dd_slots>>
    /\ PoolFrame

\* try: return self._bl2ind[bl]
Try(w) ==
    LET wk == dd_workers[w]
        bl == CallBl(wk.n, wk.call)
    IN  /\ wk.pc = "try"
        /\ IF ~bl2ind.some
           THEN /\ dd_workers' = [dd_workers EXCEPT ![w].pc = "create"]
                /\ UNCHANGED <<dd_failed, dd_readers>>
           ELSE /\ dd_readers' = dd_readers \cup {wk.n}
                /\ IF bl \in DOMAIN bl2ind.v
                   THEN /\ dd_workers' = [dd_workers EXCEPT ![w] = Got(wk, bl2ind.v[bl])]
                        /\ UNCHANGED dd_failed
                   ELSE /\ dd_workers' = [dd_workers EXCEPT ![w] = IdleWorker]
                        /\ dd_failed' = dd_failed \cup {wk.n}
        /\ UNCHANGED <<bl2ind, dd_next, blpair2delay, dd_writers, dd_slots>>
        /\ PoolFrame

\* except(AttributeError): self._bl2ind = {}
Create(w) ==
    LET wk == dd_workers[w]
    IN  /\ wk.pc = "create"
        /\ bl2ind' = Some(EmptyDict)
        /\ dd_writers' = dd_writers \cup {wk.n}
        /\ dd_workers' = [dd_workers EXCEPT ![w].pc = "fill", ![w].k = 1]
        /\ UNCHANGED <<dd_next, blpair2delay, dd_failed, dd_readers, dd_slots>>
        /\ PoolFrame

\* for x, b in enumerate(self.bl_order()): self._bl2ind[b] = x
Fill(w) ==
    LET wk == dd_workers[w]
        order == bl_order(reds.v)
    IN  /\ wk.pc = "fill" /\ wk.k <= Len(order)
        /\ bl2ind' = Some(Put(bl2ind.v, order[wk.k], wk.k - 1))
        /\ dd_writers' = dd_writers \cup {wk.n}
        /\ dd_workers' = [dd_workers EXCEPT ![w].k = wk.k + 1]
        /\ UNCHANGED <<dd_next, blpair2delay, dd_failed, dd_readers, dd_slots>>
        /\ PoolFrame

\* return self._bl2ind[bl], after the loop
Ret(w) ==
    LET wk == dd_workers[w]
        bl == CallBl(wk.n, wk.call)
    IN  /\ wk.pc = "fill" /\ wk.k > Len(bl_order(reds.v))
        /\ dd_readers' = dd_readers \cup {wk.n}
        /\ IF bl \in DOMAIN bl2ind.v
           THEN /\ dd_workers' = [dd_workers EXCEPT ![w] = Got(wk, bl2ind.v[bl])]
                /\ UNCHANGED dd_failed
           ELSE /\ dd_workers' = [dd_workers EXCEPT ![w] = IdleWorker]
                /\ dd_failed' = dd_failed \cup {wk.n}
        /\ UNCHANGED <<bl2ind, dd_next, blpair2delay, dd_writers, dd_slots>>
        /\ PoolFrame

\* blpair2delay[(bl1, bl2)] = redundant_bl_cal_simple(d1, w1, d2, w2, fqs)
Store(w) ==
    LET wk == dd_workers[w]
        dd == order_data(Info, fc_data).v
        delay == PairDelay(dd[wk.ix[1] + 1], dd[wk.ix[3] + 1], TRUE, FALSE)
    IN  /\ wk.pc = "write"
        /\ blpair2delay' = Put(blpair2delay, bl_pairs[wk.n], delay.v)
        /\ dd_slots' = dd_slots \cup {<<wk.n, bl_pairs[wk.n]>>}
        /\ dd_workers' = [dd_workers EXCEPT ![w] = IdleWorker]
        /\ UNCHANGED <<bl2ind, dd_next, dd_failed, dd_writers, dd_readers>>
        /\ PoolFrame

NextPool ==
    \E w \in 1..NWorkers :
        TakePair(w) \/ Try(w) \/ Create(w) \/ Fill(w) \/ Ret(w) \/ Store(w)

SpecPool == InitPool /\ [][NextPool]_vars

(***************************************************************************)
(* C18.  The loop of data_to_delays on concurrent workers.                 *)
(***************************************************************************)
PoolDone ==
    dd_next > Len(bl_pairs) /\ \A w \in 1..NWorkers : dd_workers[w].pc = "idle"
\* what the sequential loop returns
SequentialDelays ==
    data_to_delays([Info EXCEPT !.bl2ind = None], fc_data, fc_wgts, TRUE, FALSE).v

\* C18: in every interleaving no iteration writes state that another
\* iteration reads, the lookup table _bl2ind included, every iteration
\* writes only the slot of its own pair, no iteration fails, and the
\* mapping left when all iterations are over is that of the sequential loop.
C18_ConcurrentSafe ==
    /\ \A i \in dd_writers : \A j \in dd_readers : i = j
    /\ \A e \in dd_slots : e[2] = bl_pairs[e[1]]
    /\ dd_failed = {}
    /\ PoolDone => blpair2delay = SequentialDelays

\* what holds: the iterations are independent once _bl2ind exists when the
\* loop starts, and every iteration writes its own slot only
PoolSafeOnceIndexed ==
    /\ \A e \in dd_slots : e[2] = bl_pairs[e[1]]
    /\ (bl2ind.some /\ dd_writers = {}) =>
          /\ dd_failed = {}
          /\ PoolDone => blpair2delay = SequentialDelays

\* an iteration found the table another iteration was filling, and failed
SomeIterationFailed == dd_failed # {} /\ dd_writers # {} /\ dd_failed \cap dd_writers = {}
NoIterationFails == ~SomeIterationFailed

(***************************************************************************)
(* io.write_cal and io.update_uvcal.  A gain is a complex mantissa and a   *)
(* decimal exponent, (re + i im) * 10^e; an array is a function of its     *)
(* cells <<antenna index, pixel, polarization index>>, a pixel standing    *)
(* for a (frequency, time) sample.                                         *)
(***************************************************************************)
NUvPix == 2
UvPix == 1..NUvPix

Gain(re, im, e) == [re |-> re, im |-> im, e |-> e]
GOne == Gain(1, 0, 0)
GainVals ==
    {Gain(0, 0, 0), Gain(3, 4, 0 - 11), Gain(8, 8, 0 - 11), Gain(10, 5, 0 - 11),
     GOne, Gain(0, 0 - 1, 0)}

IsCloseToZero_Componentwise(g) ==
    (g.re = 0 /\ g.im = 0) \/ (g.e = 0 - 11 /\ g.re * g.re <= 100 /\ g.im * g.im <= 100)
\* np.isclose(g, 0, rtol=1e-10, atol=1e-10): |g| <= 1e-10, for a mantissa
\* of at most two digits and an exponent of 0 or -11
IsCloseToZero(g) ==
    (g.re = 0 /\ g.im = 0) \/ (g.e = 0 - 11 /\ g.re * g.re + g.im * g.im <= 100)

\* sorted(map(lambda k: k[0], gains.keys())): an antenna once per key
AntArray(keys) ==
    LET ants == Ascending({k[1] : k \in keys})
    IN  FlattenSeq([n \in 1..Len(ants) |->
                       [c \in 1..Cardinality({k \in keys : k[1] = ants[n]}) |-> ants[n]]])
\* sorted(set(map(lambda k: k[1], gains.keys())))
PolArray(keys) ==
    (IF \E k \in keys : k[2] = "x" THEN <<"x">> ELSE <<>>)
      \o (IF \E k \in keys : k[2] = "y" THEN <<"y">> ELSE <<>>)

CellsOf(ants, pols) == (1..Len(ants)) \X UvPix \X (1..Len(pols))

\* lines 1040-1062: the arrays write_cal forms from gains and flags
FormGains(g, ants, pols) ==
    [c \in CellsOf(ants, pols) |->
        IF <<ants[c[1]], pols[c[3]]>> \in DOMAIN g
        THEN g[<<ants[c[1]], pols[c[3]]>>][c[2]]
        ELSE GOne]
FormFlags(g, f, ants, pols) ==
    [c \in CellsOf(ants, pols) |->
        IF <<ants[c[1]], pols[c[3]]>> \in DOMAIN g
        THEN (IF f.some THEN f.v[<<ants[c[1]], pols[c[3]]>>][c[2]] ELSE FALSE)
        ELSE TRUE]

\* HERACal.update: the waterfalls of the keys of a dictionary stored at
\* _antnum_indices[ant], _jnum_indices[jstr2num(pol)]
AntnumIndex(ants, a) ==
    CHOOSE n \in 1..Len(ants) : ants[n] = a /\ \A k \in 1..Len(ants) : ants[k] = a => k <= n
JnumIndex(pols, p) == CHOOSE n \in 1..Len(pols) : jstr2num(pols[n]) = jstr2num(p)
UpdateArray(array, d, ants, pols) ==
    [c \in DOMAIN array |->
        IF \E k \in DOMAIN d : AntnumIndex(ants, k[1]) = c[1] /\ JnumIndex(pols, k[2]) = c[3]
        THEN d[CHOOSE k \in DOMAIN d :
                  AntnumIndex(ants, k[1]) = c[1] /\ JnumIndex(pols, k[2]) = c[3]][c[2]]
        ELSE array[c]]

\* zero_check.max(): a numpy.bool_;  x is True: the identity of x with
\* Python's True, which no numpy.bool_ has
NpMax(zero_check) ==
    [type |-> "numpy.bool_", v |-> \E c \in DOMAIN zero_check : zero_check[c]]
IsTrue(x) == x.type = "bool" /\ x.v

ZeroMsg == "Some of values in self.gain_array were zero and are flagged and set to 1."

\* the zero check of write_cal (1064-1069) and update_uvcal (1133-1138)
ZeroCheck(ga, fa, out) ==
    LET zero_check == [c \in DOMAIN ga |-> IsCloseToZero(ga[c])]
    IN  [gain_array |-> [c \in DOMAIN ga |->
                            IF zero_check[c] THEN GOne ELSE ga[c]],
         flag_array |-> [c \in DOMAIN fa |->
                            IF zero_check[c] THEN TRUE ELSE fa[c]],
         stdout |-> IF IsTrue(NpMax(zero_check)) THEN Append(out, ZeroMsg) ELSE out]

(***************************************************************************)
(* SpecWC: a caller holds gains and flags and an UVCal object, and calls   *)
(* write_cal(return_uvc=True) or update_uvcal with them.                   *)
(***************************************************************************)
WcKeySets ==
    {{<<0, "x">>}, {<<0, "x">>, <<1, "y">>}, {<<1, "x">>, <<1, "y">>}}
\* waterfalls of one value, and of one value at the first pixel only
GainWaterfalls ==
    {[t \in UvPix |-> g] : g \in GainVals}
      \cup {[t \in UvPix |-> IF t = 1 THEN g ELSE GOne] : g \in GainVals}
WcFlagWaterfalls ==
    {[t \in UvPix |-> FALSE], [t \in UvPix |-> TRUE], [t \in UvPix |-> t = 1]}

\* the UVCal objects update_uvcal is called on: antennas 0 and 1, both
\* polarizations, unit gains but for a zero at one unflagged cell, one
\* cell flagged
BaseCal ==
    LET ants == <<0, 1>>
        pols == <<"x", "y">>
    IN  [ant_array |-> ants, pols |-> pols,
         gain_array |-> [c \in CellsOf(ants, pols) |->
                            IF c = <<2, 1, 1>> THEN Gain(0, 0, 0) ELSE GOne],
         flag_array |-> [c \in CellsOf(ants, pols) |-> c = <<1, 1, 2>>]]

InitWC ==
    /\ \E keys \in WcKeySets :
          /\ wc_gains \in [keys -> GainWaterfalls]
          /\ wc_flags \in {None} \cup {Some([k \in keys |-> w]) : w \in WcFlagWaterfalls}
    /\ cal = None /\ zc_in = None /\ stdout = <<>> /\ wc_call = "none"
    /\ InitOthersOfWC

WriteCal ==
    /\ wc_call = "none"
    /\ LET ants == AntArray(DOMAIN wc_gains)
           pols == PolArray(DOMAIN wc_gains)
           gain_array0 == FormGains(wc_gains, ants, pols)
           flag_array0 == FormFlags(wc_gains, wc_flags, ants, pols)
           r == ZeroCheck(gain_array0, flag_array0, stdout)
       IN  /\ zc_in' = Some([gain_array |-> gain_array0, flag_array |-> flag_array0])
           /\ cal' = Some([ant_array |-> ants, pols |-> pols,
                           gain_array |-> r.gain_array, flag_array |-> r.flag_array])
           /\ stdout' = r.stdout
    /\ wc_call' = "write_cal"
    /\ UNCHANGED <<wc_gains, wc_flags>>
    /\ UNCHANGED othersOfWC

UpdateUvcal ==
    /\ wc_call = "none"
    /\ \E withGains, withFlags \in BOOLEAN :
          LET c == BaseCal
              gain_array0 == IF withGains
                             THEN UpdateArray(c.gain_array, wc_gains, c.ant_array, c.pols)
                             ELSE c.gain_array
              flag_array0 == IF withFlags /\ wc_flags.some
                             THEN UpdateArray(c.flag_array, wc_flags.v, c.ant_array, c.pols)
                             ELSE c.flag_array
              r == ZeroCheck(gain_array0, flag_array0, stdout)
          IN  /\ zc_in' = Some([gain_array |-> gain_array0, flag_array |-> flag_array0])
              /\ cal' = Some([c EXCEPT !.gain_array = r.gain_array,
                                       !.flag_array = r.flag_array])
              /\ stdout' = r.stdout
    /\ wc_call' = "update_uvcal"
    /\ UNCHANGED <<wc_gains, wc_flags>>
    /\ UNCHANGED othersOfWC

NextWC == WriteCal \/ UpdateUvcal

SpecWC == InitWC /\ [][NextWC]_vars

(***************************************************************************)
(* C19, C20.  The zero check.                                              *)
(***************************************************************************)
\* C19: after write_cal or update_uvcal, every gain the check found within
\* 1e-10 of zero is 1+0j and flagged, every other gain is what the check
\* found, and every flag the check found True is True.
C19_NearZeroNeutralised ==
    cal.some =>
        /\ DOMAIN cal.v.gain_array = DOMAIN zc_in.v.gain_array
        /\ DOMAIN cal.v.flag_array = DOMAIN zc_in.v.gain_array
        /\ \A c \in DOMAIN zc_in.v.gain_array :
              LET g == zc_in.v.gain_array[c]
                  near == (g.re = 0 /\ g.im = 0)
                            \/ (g.e = 0 - 11 /\ g.re * g.re + g.im * g.im <= 100)
              IN  /\ near => cal.v.gain_array[c] = GOne /\ cal.v.flag_array[c]
                  /\ ~near => cal.v.gain_array[c] = g
                  /\ ~near => cal.v.flag_array[c] = zc_in.v.flag_array[c]
                  /\ zc_in.v.flag_array[c] => cal.v.flag_array[c]

\* a call replaced a zero and a gain of magnitude 5e-11, kept one of
\* magnitude 1.1e-10 whose parts are both below 1e-10, and kept a flag
C19_Witness ==
    /\ cal.some
    /\ \E c \in DOMAIN zc_in.v.gain_array :
          zc_in.v.gain_array[c] = Gain(3, 4, 0 - 11) /\ cal.v.gain_array[c] = GOne
          /\ ~zc_in.v.flag_array[c] /\ cal.v.flag_array[c]
    /\ \E c \in DOMAIN zc_in.v.gain_array :
          zc_in.v.gain_array[c] = Gain(8, 8, 0 - 11)
          /\ cal.v.gain_array[c] = Gain(8, 8, 0 - 11)
    /\ \E c \in DOMAIN zc_in.v.gain_array :
          zc_in.v.flag_array[c] /\ cal.v.flag_array[c]
             /\ zc_in.v.gain_array[c] = cal.v.gain_array[c]

\* the call replaced at least one gain
Replaced ==
    cal.some /\ \E c \in DOMAIN zc_in.v.gain_array : IsCloseToZero(zc_in.v.gain_array[c])

\* C20: the message is printed whenever write_cal or update_uvcal replaced
\* at least one gain, and is not printed when none was replaced.
C20_DiagnosticEmitted ==
    cal.some => (Replaced <=> stdout = <<ZeroMsg>>)

\* what the code does: the message is never printed
NeverPrinted == stdout = <<>>
ReplacedSilently == Replaced /\ stdout = <<>>
NeverReplacedSilently == ~ReplacedSilently

(***************************************************************************)
(* C21.  A chisq call that fails part-way through its baselines.           *)
(***************************************************************************)
\* the last call was given the four accumulators of an earlier call and
\* raised while it processed a baseline
LastCallFailedInLoop ==
    /\ Len(cq_calls) >= 2
    /\ cq_calls[Len(cq_calls)].pass = [k \in 1..4 |-> TRUE]
    /\ cq_calls[Len(cq_calls)].status = "KeyError"

\* C21: when a call that was given prior accumulators fails while it
\* processes some baseline, the caller's chisq, nObs, chisq_per_ant and
\* nObs_per_ant are what they were before the call, whatever the order of
\* the baselines.
C21_NoPartialCommit ==
    LastCallFailedInLoop => Held = cq_calls[Len(cq_calls)].before

\* what the code does: the accumulators passed are updated in place
\* baseline by baseline, so after a failure they hold what they held
\* before plus the baselines processed until then, never less
FailedCallKeepsProgress ==
    LastCallFailedInLoop =>
        LET b == cq_calls[Len(cq_calls)].before
        IN  /\ DOMAIN b.chisq_per_ant.v \subseteq DOMAIN chisq_per_ant.v
            /\ \A ant \in DOMAIN b.chisq_per_ant.v : \A p \in Pix :
                  /\ chisq_per_ant.v[ant][p] >= b.chisq_per_ant.v[ant][p]
                  /\ nObs_per_ant.v[ant][p] >= b.nObs_per_ant.v[ant][p]

(***************************************************************************)
(* C22.  The flags AbsCal.run passes on.                                   *)
(***************************************************************************)
\* the fields a run leaves when its two steps are given up, uf, ut
RunLeaves(up, uf, ut, zero_psi) ==
    LET a == amp_lincal(Self, ut, uf, up)
        b == phs_logcal(a, ut, uf, up, zero_psi)
    IN  /\ gain_amp' = a.gain_amp /\ gain_amp'.some
        /\ gain_psi' = b.gain_psi /\ gain_psi'.some
        /\ gain_phi' = b.gain_phi /\ gain_phi'.some

\* C22: a successful run(unravel_pol, unravel_freq, unravel_time) leaves
\* the gain_amp that amp_lincal and then the gain_psi and gain_phi that
\* phs_logcal solve when each is given the three flags run received, all
\* three fields present.
C22_RunForwardsFlags ==
    [][\A up, uf, ut, zero_psi \in BOOLEAN :
          (Return(run(Self, up, uf, ut, zero_psi)) /\ ac_exc' = "ok") =>
              RunLeaves(up, uf, ut, zero_psi)]_vars

\* what the code does: both steps are given unravel_pol=False, whatever
\* run received
RunNeverTiesPols ==
    [][\A up, uf, ut, zero_psi \in BOOLEAN :
          (Return(run(Self, up, uf, ut, zero_psi)) /\ ac_exc' = "ok") =>
              RunLeaves(FALSE, uf, ut, zero_psi)]_vars

(***************************************************************************)
(* C23.  The observation count of chisq.                                   *)
(***************************************************************************)
\* the weight of a baseline at a pixel with the gain flags applied
EffAt(bl, p) ==
    IF gain_flags.some /\ (Flagged(Ant1(bl), p) \/ Flagged(Ant2(bl), p))
    THEN 0 ELSE data_wgts[bl][p]
Counts(bl, p) == IF EffAt(bl, p) > 0 THEN 1 ELSE 0

\* chisq and nObs of the result r at the pixel p, where the baseline bl adds
ChisqAt(r, bl, p) ==
    IF split_by_antpol THEN Val(r.chisq.v, Ant1(bl)[2], p) ELSE r.chisq.v[p]
NObsAt(r, bl, p) ==
    IF split_by_antpol THEN Val(r.nObs.v, Ant1(bl)[2], p) ELSE r.nObs.v[p]
\* the baselines that add to the same chisq and nObs as bl
AddingWith(bl) ==
    IF split_by_antpol THEN OfAntPol(Compared(BlKeys), Ant1(bl)[2])
    ELSE Compared(BlKeys)
Without(bl) == Fresh(Args(BlKeys \ {bl}), AnOrder(BlKeys \ {bl}))

\* C23: with fresh accumulators, every compared baseline raises nObs at a
\* pixel by exactly 1 if its weight with the gain flags applied is greater
\* than 0 there and by 0 otherwise; nObs is between 0 and the number of
\* compared baselines; and where a baseline adds a non-zero amount to
\* chisq it adds 1 to nObs.
C23_ObservationCount ==
    LastOk =>
        \A bl \in Compared(BlKeys) : \A p \in Pix :
            /\ NObsAt(Held, bl, p) - NObsAt(Without(bl), bl, p) = Counts(bl, p)
            /\ NObsAt(Held, bl, p) =
                  SumF(AddingWith(bl), [b \in AddingWith(bl) |-> Counts(b, p)])
            /\ 0 <= NObsAt(Held, bl, p)
            /\ NObsAt(Held, bl, p) <= Cardinality(Compared(BlKeys))
            /\ ChisqAt(Held, bl, p) # ChisqAt(Without(bl), bl, p) =>
                  NObsAt(Held, bl, p) = NObsAt(Without(bl), bl, p) + 1

\* at one pixel a compared baseline adds to chisq and is counted, and
\* another, of non-zero weight, is not counted because of a gain flag
C23_Witness ==
    /\ LastOk /\ gain_flags.some /\ ~split_by_antpol
    /\ \E b1, b2 \in Compared(BlKeys) : \E p \in Pix :
          /\ Counts(b1, p) = 1
          /\ ChisqAt(Held, b1, p) # ChisqAt(Without(b1), b1, p)
          /\ data_wgts[b2][p] > 0 /\ Counts(b2, p) = 0
          /\ nObs.v[p] < Cardinality(Compared(BlKeys))

(***************************************************************************)
(* C24.  chisq per antenna.                                                *)
(***************************************************************************)
\* what a compared baseline adds to chisq at a pixel
Contribution(bl, p) == CAbs(Residual(bl, p)) * EffAt(bl, p)
\* the compared baselines that contain the antenna-pol
Containing(ant) == {bl \in Compared(BlKeys) : ant \in {Ant1(bl), Ant2(bl)}}
\* the number of ends of the baseline that are the antenna-pol
Ends(bl, ant) == B2I(Ant1(bl) = ant) + B2I(Ant2(bl) = ant)

\* C24: with fresh accumulators, chisq_per_ant of an antenna-pol is the sum
\* of the chisq contributions of the compared baselines that contain it,
\* each of them counted once, nObs_per_ant is the matching count, and the
\* two have the same keys.
C24_PerAntennaSums ==
    LastOk =>
        /\ DOMAIN chisq_per_ant.v = DOMAIN nObs_per_ant.v
        /\ DOMAIN chisq_per_ant.v = {ant \in AntPols : Containing(ant) # {}}
        /\ \A ant \in DOMAIN chisq_per_ant.v : \A p \in Pix :
              /\ chisq_per_ant.v[ant][p] =
                    SumF(Containing(ant), [bl \in Containing(ant) |-> Contribution(bl, p)])
              /\ nObs_per_ant.v[ant][p] =
                    SumF(Containing(ant), [bl \in Containing(ant) |-> Counts(bl, p)])

\* what the code does: a baseline is added once for each of its two ends,
\* so an autocorrelation is added twice to its antenna
PerAntennaCountsEnds ==
    LastOk =>
        /\ DOMAIN chisq_per_ant.v = DOMAIN nObs_per_ant.v
        /\ DOMAIN chisq_per_ant.v = {ant \in AntPols : Containing(ant) # {}}
        /\ \A ant \in DOMAIN chisq_per_ant.v : \A p \in Pix :
              /\ chisq_per_ant.v[ant][p] =
                    SumF(Containing(ant),
                         [bl \in Containing(ant) |-> Ends(bl, ant) * Contribution(bl, p)])
              /\ nObs_per_ant.v[ant][p] =
                    SumF(Containing(ant),
                         [bl \in Containing(ant) |-> Ends(bl, ant) * Counts(bl, p)])

(***************************************************************************)
(* C25.  The rows of M and the rows of A.                                  *)
(***************************************************************************)
\* the delay measured for a baseline pair at a time sample
MeasuredDelay(bp, t) == fc_data[bp[2]][t] - fc_data[bp[1]][t]
GotM == fc_call.op = "get_M" /\ fc_exc = "ok" /\ fc_ret.some
RowsHoldTheirPair ==
    /\ Len(fc_ret.v) = Len(bl_pairs)
    /\ \A n \in 1..Len(bl_pairs) : \A t \in DOMAIN fc_ret.v[n] :
          fc_ret.v[n][t] = MeasuredDelay(bl_pairs[n], t)
NoPairTwice ==
    \A n, k \in 1..Len(bl_pairs) : bl_pairs[n] = bl_pairs[k] => n = k

\* C25: for every redundancy description init_from_reds accepts, a baseline
\* listed twice in a group included, row n of the matrix M that get_M
\* builds holds the delay measured for bl_pairs[n], the pair of row n of A;
\* no row is left at its initial zero.
C25_RowsAligned == GotM => RowsHoldTheirPair

\* what the code does: the rows are aligned when no pair occurs twice in
\* bl_pairs; of the rows of a pair that occurs more than once only the last
\* is written, the others stay zero
RowsAlignedWithoutRepeats ==
    GotM =>
        /\ NoPairTwice => RowsHoldTheirPair
        /\ \A n \in 1..Len(bl_pairs) : \A t \in DOMAIN fc_ret.v[n] :
              fc_ret.v[n][t] =
                  IF \E k \in (n + 1)..Len(bl_pairs) : bl_pairs[k] = bl_pairs[n]
                  THEN 0 ELSE MeasuredDelay(bl_pairs[n], t)

(***************************************************************************)
(* SpecFCAgain: one info object is initialised from redundancy             *)
(* descriptions again and again, its lookups used in between.              *)
(***************************************************************************)
InitFromRedsAgain ==
    \E r \in RedsSet :
        /\ LET s == init_from_reds(Info, r)
           IN  SetInfo(s) /\ fc_exc' = s.exc
        /\ fc_ret' = None
        /\ fc_call' = [op |-> "init_from_reds", finetune |-> FALSE, average |-> FALSE]
        /\ UNCHANGED <<fc_data, fc_wgts, fc_M, fcal_A, xhat>>
        /\ UNCHANGED othersOfFC

NextFCAgain == InitFromRedsAgain \/ BlIndex \/ BlpairIndex \/ Blpair2antind

SpecFCAgain == InitFC /\ [][NextFCAgain]_vars

(***************************************************************************)
(* C26.  The memoized lookups and the description the info holds.          *)
(***************************************************************************)
\* row n of A as the antenna indices of bl_pairs[n] in subsetant give it
RowOfPair(bp) ==
    LET ix == AntInd(subsetant, bp)
    IN  [c \in 0..(Len(subsetant) - 1) |->
            B2I(c = ix[1]) - B2I(c = ix[2]) - B2I(c = ix[3]) + B2I(c = ix[4])]

LookupsCurrent ==
    /\ \A bl \in SeqRange(bl_order(reds.v)) :
          LET r == bl_index(Info, bl)
          IN  r.exc = "ok" /\ r.v + 1 \in 1..Len(bl_order(reds.v))
              /\ bl_order(reds.v)[r.v + 1] = bl
    /\ \A bp \in SeqRange(bl_pairs) :
          LET r == blpair_index(Info, bp)
          IN  r.exc = "ok" /\ r.v + 1 \in 1..Len(bl_pairs) /\ bl_pairs[r.v + 1] = bp
    /\ \A bp \in SeqRange(bl_pairs) :
          LET r == blpair2antind(Info, bp)
          IN  r.exc = "ok" /\ r.v = AntInd(subsetant, bp)
    /\ fc_call.op = "init_from_reds" =>
          /\ fc_exc = "ok"
          /\ fc_A = [n \in 1..Len(bl_pairs) |-> RowOfPair(bl_pairs[n])]

\* C26: after any sequence of init_from_reds calls on one info object,
\* with lookups in between, bl_index(bl) is the position of bl in the
\* current bl_order(), blpair_index(bp) the position of bp in the current
\* bl_pairs, blpair2antind(bp) the current antenna indices of the antennas
\* of bp, and A is built from the antenna indices of the latest description.
C26_MemoNeverStale == reds.some => LookupsCurrent

\* what the code gives: under SpecFC, where the info is initialised once,
\* a table that exists is the table of the description, and the lookups
\* are current
LookupsCurrentAfterOneInit ==
    reds.some =>
        /\ bl2ind.some => bl2ind.v = IndexTable(bl_order(reds.v))
        /\ blpair2ind.some => blpair2ind.v = IndexTable(bl_pairs)
        /\ LookupsCurrent

(***************************************************************************)
(* SpecACAgain: amp_lincal, phs_logcal and make_gains are called on one    *)
(* AbsCal object, up to MaxAcCalls times in any order, and the calls are   *)
(* logged.                                                                 *)
(***************************************************************************)
MaxAcCalls == 4

InitACAgain ==
    /\ \E antpos_given \in BOOLEAN :
          LET h3 == (1 :> AcDict(1)) @@ (2 :> AcDict(2)) @@ (3 :> AcDict(3))
              h4 == IF antpos_given THEN h3 @@ (4 :> BlsOf(h3[1])) ELSE h3
          IN  /\ heap = h4 /\ heap0 = h4
              /\ ac_model = 1 /\ ac_data = 2 /\ ac_wgts = 3
              /\ bls = IF antpos_given THEN Some(4) ELSE None
              /\ freqs = None
    /\ gain_amp = None /\ gain_psi = None /\ gain_phi = None /\ delays = None
    /\ gain_array = None /\ ac_exc = "ok"
    /\ ac_log = <<>>
    /\ InitOthersOfACAgain

\* the method op, called with arg, returns
ReturnLogged(s, op, arg) ==
    /\ Len(ac_log) < MaxAcCalls
    /\ heap' = Restrict(s.heap, DOMAIN heap)
    /\ gain_amp' = s.gain_amp /\ gain_psi' = s.gain_psi /\ gain_phi' = s.gain_phi
    /\ delays' = s.delays /\ gain_array' = s.gain_array /\ ac_exc' = s.exc
    /\ ac_log' = Append(ac_log, [op |-> op, arg |-> arg])
    /\ UNCHANGED <<heap0, ac_model, ac_data, ac_wgts, bls, freqs>>
    /\ UNCHANGED othersOfACAgain

AmpLincalAgain ==
    \E ut \in BOOLEAN :
        ReturnLogged(amp_lincal(Self, ut, FALSE, FALSE), "amp_lincal", ut)
PhsLogcalAgain ==
    \E ut \in BOOLEAN :
        ReturnLogged(phs_logcal(Self, ut, FALSE, FALSE, FALSE), "phs_logcal", ut)
MakeGainsAgain ==
    \E gains2dict \in BOOLEAN :
        ReturnLogged(make_gains(Self, gains2dict), "make_gains", gains2dict)

NextACAgain == AmpLincalAgain \/ PhsLogcalAgain \/ MakeGainsAgain

SpecACAgain == InitACAgain /\ [][NextACAgain]_vars

(***************************************************************************)
(* C27.  Gain assembly does not compound.                                  *)
(***************************************************************************)
\* the object as the constructor left it, and the object without the
\* gain array of earlier make_gains calls
Constructed ==
    [Self EXCEPT !.heap = heap0, !.gain_amp = None, !.gain_psi = None,
                 !.gain_phi = None, !.gain_array = None]
NeverAssembled == [Self EXCEPT !.gain_array = None]
\* the values of a gain array, in either of its two forms
GainValues(ga) == [factors |-> ga.v.factors, times |-> ga.v.times, shape |-> ga.v.shape]
LastCall == ac_log[Len(ac_log)]

\* C27: make_gains rebuilds gain_array from ones on every call: after any
\* calls before it, make_gains with either gains2dict among them, the gain
\* values are those of a single make_gains call; and an amp_lincal or
\* phs_logcal call leaves the field it solves as a first call leaves it,
\* whatever was solved before.
C27_NoCompounding ==
    ac_log # <<>> =>
        /\ LastCall.op = "make_gains" =>
              /\ gain_array.some /\ gain_array.v.dict = LastCall.arg
              /\ GainValues(gain_array) =
                    GainValues(make_gains(NeverAssembled, FALSE).gain_array)
              /\ \A f \in gain_array.v.factors : gain_array.v.times[f] = 1
        /\ LastCall.op = "amp_lincal" =>
              gain_amp = amp_lincal(Constructed, LastCall.arg, FALSE, FALSE).gain_amp
        /\ (LastCall.op = "phs_logcal" /\ ac_exc = "ok") =>
              LET first == phs_logcal(Constructed, LastCall.arg, FALSE, FALSE, FALSE)
              IN  gain_psi = first.gain_psi /\ gain_phi = first.gain_phi

\* amp_lincal was run twice with different flags, then make_gains twice,
\* the first time into a dictionary
C27_Witness ==
    /\ Len(ac_log) = 4
    /\ ac_log[1] = [op |-> "amp_lincal", arg |-> TRUE]
    /\ ac_log[2] = [op |-> "amp_lincal", arg |-> FALSE]
    /\ ac_log[3] = [op |-> "make_gains", arg |-> TRUE]
    /\ ac_log[4] = [op |-> "make_gains", arg |-> FALSE]
    /\ gain_array.some /\ gain_array.v.factors = {"gain_amp"}

(***************************************************************************)
(* io.HERAData._set_slice.                                                 *)
(***************************************************************************)
\* data_array[blt_slice, 0, :, pol_index] = value, KeyError (and nothing
\* assigned) when the antenna pair or the polarization number is not indexed
SetAt(da, antpair, polnum, value) ==
    IF antpair \in DOMAIN blt_slices /\ polnum \in DOMAIN polnum_indices
    THEN [exc |-> "ok",
          v |-> [da EXCEPT ![blt_slices[antpair]][polnum_indices[polnum]] = value]]
    ELSE [exc |-> "KeyError", v |-> da]

SetSliceBl_NoConj(da, key, value) ==
    LET r == SetAt(da, <<key[1], key[2]>>, polstr2num(key[3]), value)
    IN  IF r.exc = "KeyError"
        THEN SetAt(da, <<key[2], key[1]>>, polstr2num(conj_pol(key[3])), value)
        ELSE r
\* _set_slice on a baseline-pol triple: the except branch assigns the
\* conjugate to the reversed pair at the conjugate polarization
SetSliceBl(da, key, value) ==
    LET r == SetAt(da, <<key[1], key[2]>>, polstr2num(key[3]), value)
    IN  IF r.exc = "KeyError"
        THEN SetAt(da, <<key[2], key[1]>>, polstr2num(conj_pol(key[3])), WConj(value))
        ELSE r

\* the loop of _set_slice over the keys of the dictionary it was given,
\* todo being the baseline-pol triples in the order of the loop; the first
\* KeyError leaves it, with what was assigned until then
RECURSIVE SetSliceLoop(_, _, _)
SetSliceLoop(da, todo, value) ==
    IF todo = <<>> THEN [exc |-> "ok", v |-> da]
    ELSE LET r == SetSliceBl(da, Head(todo), value)
         IN  IF r.exc # "ok" THEN r ELSE SetSliceLoop(r.v, Tail(todo), value)

\* every waterfall given is value; order lists the keys of the dictionary
\* given with a polarization string or an antenna pair
set_slice(da, key, order, value) ==
    IF key.str
    THEN SetSliceLoop(da, [n \in 1..Len(order) |->
                              <<order[n][1], order[n][2], key.pol>>], value)
    ELSE IF KeyLen(key) = 2
    THEN SetSliceLoop(da, [n \in 1..Len(order) |->
                              <<key.ants[1], key.ants[2], order[n]>>], value)
    ELSE IF KeyLen(key) = 3
    THEN SetSliceBl(da, <<key.ants[1], key.ants[2], key.pol>>, value)
    ELSE [exc |-> "KeyError", v |-> da]

(***************************************************************************)
(* SpecHDSet: one _set_slice on the data_array of a HERAData object, and   *)
(* the _get_slice lookups that follow it.                                  *)
(***************************************************************************)
\* the waterfall that is set: not real, and in no cell of a data_array
NewWaterfall == [p \in Pix |-> <<7, p>>]

\* the orders of the keys of the dictionaries given with a key
DictOrders(key) ==
    LET among(S) == UNION {Orders(T) : T \in {U \in SUBSET S : U # {} /\ Cardinality(U) <= 2}}
    IN  IF key.str THEN among({<<0, 1>>, <<1, 0>>, <<1, 1>>})
        ELSE IF KeyLen(key) = 2 THEN among({XX, XY, YX})
        ELSE {<<>>}

SetSlice ==
    \E key \in HdKeys : \E order \in DictOrders(key) :
        /\ ~hd_set.some
        /\ LET r == set_slice(data_array, key, order, NewWaterfall)
           IN  /\ data_array' = r.v
               /\ hd_set' = [some |-> TRUE, key |-> key, nkeys |-> Len(order),
                             before |-> data_array, exc |-> r.exc]
        /\ UNCHANGED <<blt_slices, polarization_array, polnum_indices, hd_key, hd_ret>>
        /\ UNCHANGED othersOfHDSet

\* a _get_slice that follows the _set_slice
GetSliceAfterSet == hd_set.some /\ GetSlice

NextHDSet == SetSlice \/ GetSliceAfterSet

SpecHDSet == InitHD /\ [][NextHDSet]_vars

(***************************************************************************)
(* C30.  The round trip of _set_slice and _get_slice.                      *)
(***************************************************************************)
\* the cell of data_array that holds the waterfall of (i,j,pol)
CellOf(i, j, pol) == <<blt_slices[<<i, j>>], polnum_indices[polstr2num(pol)]>>
\* the last _set_slice was given the baseline-pol key
SetWith(i, j, pol) == hd_set.some /\ hd_set.key = TupKey(<<i, j>>, pol)

\* C30: when the object stores (i,j), i # j, and not (j,i), and pol is a
\* stored polarization, then after _set_slice(data_array, key, value) with
\* key (i,j,pol) or the reversed key (j,i,conj_pol(pol)) a _get_slice of
\* the same key returns value, and the waterfalls of all other baselines
\* and polarizations are as before.
C30_SetGetRoundTrip ==
    \A i \in HdAnts, j \in HdAnts : \A pol \in StoredPols :
        (OneOrientation(i, j)
           /\ (SetWith(i, j, pol) \/ SetWith(j, i, conj_pol(pol)))) =>
            LET key == hd_set.key
            IN  /\ hd_set.exc = "ok"
                /\ GetSliceBl(data_array, <<key.ants[1], key.ants[2], key.pol>>)
                      = [exc |-> "ok", v |-> NewWaterfall]
                /\ hd_key = Some(key) => hd_ret = [exc |-> "ok", v |-> NewWaterfall]
                /\ \A row \in DOMAIN data_array : \A k \in DOMAIN data_array[row] :
                      <<row, k>> # CellOf(i, j, pol) =>
                          data_array[row][k] = hd_set.before[row][k]

\* a waterfall was set through the reversed key of a cross polarization
\* whose conjugate polarization is not stored, the object holding other
\* waterfalls as well, and a lookup of the same key has returned it
C30_Witness ==
    /\ SetWith(1, 0, YX) /\ OneOrientation(0, 1)
    /\ XY \in StoredPols /\ YX \notin StoredPols
    /\ Cardinality(DOMAIN data_array) > 1
    /\ hd_key = Some(hd_set.key)
    /\ hd_ret = [exc |-> "ok", v |-> NewWaterfall]
    /\ data_array[CellOf(0, 1, XY)[1]][CellOf(0, 1, XY)[2]] = WConj(NewWaterfall)

(***************************************************************************)
(* C29.  The counts of synthesize_ant_flags.                               *)
(***************************************************************************)
\* C29: every antenna-pol that is not classified dead has a visibility
\* count of at least 1 when its flags are computed, so the count is never
\* replaced by 1e-10, and at every pixel its flagged count is at least 0
\* and at most its visibility count: the flagged fraction is in [0, 1].
C29_CountsWellFormed ==
    ant_flags.some =>
        \A ap \in FlagAntPols(flags) :
            ~IsExcluded(flags, ap) =>
                /\ AntNvis(flags, ap) >= 1
                /\ \A p \in Pix :
                      /\ 0 <= AntNflag(flags, ap, p)
                      /\ AntNflag(flags, ap, p) <= AntNvis(flags, ap)
                      /\ ant_flags.v[ap][p] =
                            (IF IsCloseToOne(threshold)
                             THEN AntNflag(flags, ap, p) * threshold[2]
                                     >= AntNvis(flags, ap) * threshold[1]
                             ELSE AntNflag(flags, ap, p) * threshold[2]
                                     > AntNvis(flags, ap) * threshold[1])

\* a live antenna-pol with a baseline to a dead one, left with a single
\* counted baseline, which is flagged at one pixel and not at another
C29_Witness ==
    /\ ant_flags.some
    /\ \E ap \in FlagAntPols(flags) : \E bl \in DOMAIN flags : \E p, q \in Pix :
          /\ ~IsExcluded(flags, ap)
          /\ End1(bl) = ap /\ IsExcluded(flags, End2(bl))
          /\ AntNvis(flags, ap) = 1
          /\ AntNflag(flags, ap, p) = 1 /\ AntNflag(flags, ap, q) = 0

(***************************************************************************)
(* io.HERAData.update and partial_write.  The three arrays of the object   *)
(* are modelled alike, a flag or a sample count being a real number; a     *)
(* history is the sequence of the strings appended to it; an output file   *)
(* records how often it was initialised, the history and the attributes    *)
(* it was initialised with, and the parts written to it.                   *)
(***************************************************************************)
Arrays == [data |-> data_array, flags |-> flag_array, nsamples |-> nsample_array]

NewFlags == [p \in Pix |-> <<1, 0>>]
NewNsamples == [p \in Pix |-> <<3, 0>>]

\* HERAData.update: the waterfalls of data, then those of flags, then those
\* of nsamples are set, each argument None or the keys of a DataContainer
\* in the order of its keys(); a KeyError ends it
update(a, dat, fl, ns) ==
    LET d == IF dat.some THEN SetSliceLoop(a.data, dat.v, NewWaterfall)
             ELSE [exc |-> "ok", v |-> a.data]
        f == IF d.exc = "ok" /\ fl.some THEN SetSliceLoop(a.flags, fl.v, NewFlags)
             ELSE [exc |-> d.exc, v |-> a.flags]
        n == IF f.exc = "ok" /\ ns.some THEN SetSliceLoop(a.nsamples, ns.v, NewNsamples)
             ELSE [exc |-> f.exc, v |-> a.nsamples]
    IN  [exc |-> n.exc, v |-> [data |-> d.v, flags |-> f.v, nsamples |-> n.v]]

HasWriter_Never(w, path) == FALSE
\* output_path in self._writers
HasWriter(w, path) == path \in DOMAIN w

BaseHistory == <<"read">>
NoFile == [inits |-> 0, history |-> <<>>, attrs |-> {}, parts |-> 0]

\* s holds the object: filetype, nfiles, writers, arrays, and the files on
\* disk; id names the HERAData object a new writer would be
partial_write(s, id, path, dat, fl, ns, inplace, add_to_history, kwargs) ==
    LET unchanged == [exc |-> "ok", writers |-> s.writers, files |-> s.files,
                      arrays |-> s.arrays, created |-> FALSE, writer |-> 0]
        reuse == HasWriter(s.writers, path)
        hd_writer == IF reuse THEN s.writers[path]
                     ELSE [id |-> id, history |-> BaseHistory \o add_to_history,
                           attrs |-> kwargs]
        ws == IF reuse THEN s.writers ELSE Put(s.writers, path, hd_writer)
        fs == IF reuse THEN s.files
              ELSE [s.files EXCEPT ![path] =
                       [inits |-> @.inits + 1, history |-> hd_writer.history,
                        attrs |-> hd_writer.attrs, parts |-> 0]]
        this == update(s.arrays, dat, fl, ns)
    IN  IF s.filetype # "uvh5" THEN [unchanged EXCEPT !.exc = "NotImplementedError"]
        ELSE IF s.nfiles > 1 THEN [unchanged EXCEPT !.exc = "NotImplementedError"]
        ELSE [exc |-> this.exc, writers |-> ws,
              files |-> IF this.exc = "ok"
                        THEN [fs EXCEPT ![path].parts = @ + 1] ELSE fs,
              arrays |-> IF inplace THEN this.v ELSE s.arrays,
              created |-> ~reuse, writer |-> hd_writer.id]

(***************************************************************************)
(* SpecPW: partial_write is called up to MaxWrites times on one HERAData   *)
(* object, of any file type, made from one file or from two.               *)
(***************************************************************************)
MaxWrites == 2
Paths == {"a", "b"}
PwAntPairs == {<<0, 1>>, <<1, 1>>}
PwPols == <<polstr2num(XX), polstr2num(YY)>>

\* the DataContainers given: None, one stored baseline, or a reversed
\* baseline followed by one the object does not hold
DataArgs == {None, Some(<< <<0, 1, XX>> >>), Some(<< <<1, 0, XX>>, <<7, 8, XX>> >>)}
FlagArgs == {None, Some(<< <<1, 1, YY>> >>)}

InitPW ==
    /\ blt_slices = BltSlices(PwAntPairs)
    /\ polarization_array = PwPols
    /\ polnum_indices = PolnumIndices(PwPols)
    /\ data_array = DataArray(1, PwAntPairs, PwPols)
    /\ flag_array = [row \in DOMAIN data_array |->
                        [k \in DOMAIN data_array[row] |-> [p \in Pix |-> <<0, 0>>]]]
    /\ nsample_array = [row \in DOMAIN data_array |->
                           [k \in DOMAIN data_array[row] |-> [p \in Pix |-> <<1, 0>>]]]
    /\ hd_key = None /\ hd_ret = None
    /\ filetype \in {"uvh5", "miriad"}
    /\ nfiles \in 1..2
    /\ writers = EmptyDict
    /\ files = [path \in Paths |-> NoFile]
    /\ pw_log = <<>>
    /\ InitOthersOfPW

PartialWrite ==
    \E path \in Paths : \E dat \in DataArgs : \E fl \in FlagArgs :
      \E inplace \in BOOLEAN : \E add_to_history \in {<<>>, <<"cal">>} :
        \E kwargs \in {{}, {"vis_units"}} :
          /\ Len(pw_log) < MaxWrites
          /\ \E r \in {partial_write([filetype |-> filetype, nfiles |-> nfiles,
                                      writers |-> writers, files |-> files,
                                      arrays |-> Arrays],
                                     Len(pw_log) + 1, path, dat, fl, fl, inplace,
                                     add_to_history, kwargs)} :
                /\ writers' = r.writers
                /\ files' = r.files
                /\ data_array' = r.arrays.data
                /\ flag_array' = r.arrays.flags
                /\ nsample_array' = r.arrays.nsamples
                /\ pw_log' = Append(pw_log,
                                    [path |-> path, inplace |-> inplace,
                                     history |-> BaseHistory \o add_to_history,
                                     attrs |-> kwargs, created |-> r.created,
                                     writer |-> r.writer, exc |-> r.exc,
                                     before |-> Arrays])
          /\ UNCHANGED <<blt_slices, polarization_array, polnum_indices, hd_key, hd_ret,
                         filetype, nfiles>>
          /\ UNCHANGED othersOfPW

NextPW == PartialWrite

SpecPW == InitPW /\ [][NextPW]_vars

(***************************************************************************)
(* C28.  partial_write initialises each output once.                       *)
(***************************************************************************)
\* call n is the first call of the log for its path
FirstForPath(n) == \A k \in 1..(n - 1) : pw_log[k].path # pw_log[n].path
FirstCallFor(path) ==
    pw_log[CHOOSE n \in 1..Len(pw_log) : pw_log[n].path = path /\ FirstForPath(n)]
Writable == filetype = "uvh5" /\ nfiles = 1

\* C28: over any sequence of partial_write calls on one object, the file of
\* an output_path is initialised, with add_to_history and kwargs, by the
\* first call for that path only, and every later call for the path uses
\* the writer of the first; a call with inplace=False leaves data_array,
\* flag_array and nsample_array as they were; on an object that is not
\* uvh5 or holds several files every call raises NotImplementedError and no
\* writer is ever created.
C28_InitialisedOnce ==
    /\ Writable =>
          /\ \A n \in 1..Len(pw_log) :
                /\ pw_log[n].exc # "NotImplementedError"
                /\ pw_log[n].created <=> FirstForPath(n)
                /\ pw_log[n].writer = FirstCallFor(pw_log[n].path).writer
          /\ \A path \in Paths :
                IF \E n \in 1..Len(pw_log) : pw_log[n].path = path
                THEN /\ files[path].inits = 1
                     /\ files[path].history = FirstCallFor(path).history
                     /\ files[path].attrs = FirstCallFor(path).attrs
                     /\ path \in DOMAIN writers
                     /\ writers[path].id = FirstCallFor(path).writer
                ELSE files[path] = NoFile /\ path \notin DOMAIN writers
    /\ ~Writable =>
          /\ \A n \in 1..Len(pw_log) : pw_log[n].exc = "NotImplementedError"
          /\ writers = EmptyDict
          /\ \A path \in Paths : files[path] = NoFile
    /\ (pw_log # <<>> /\ (~pw_log[Len(pw_log)].inplace \/ ~Writable)) =>
          Arrays = pw_log[Len(pw_log)].before

\* the second call for a path, with another add_to_history and other
\* kwargs than the first, has written its part through the writer of the
\* first, and left the arrays of the object alone although data was given
C28_Witness ==
    /\ Writable /\ Len(pw_log) = 2
    /\ pw_log[1].path = pw_log[2].path
    /\ pw_log[1].history # pw_log[2].history /\ pw_log[1].attrs # pw_log[2].attrs
    /\ pw_log[2].exc = "ok" /\ ~pw_log[2].inplace
    /\ files[pw_log[2].path].parts = 2
    /\ pw_log[1].inplace /\ pw_log[1].before # Arrays

====
